---- MODULE Spec2Model ----
(***************************************************************************)
(* Model of the conversational todo-extraction engine (TodoProcessor),     *)
(* the chat router that persists confirmed todos, the todo service and     *)
(* the due-reminder scan of the SonjuTalktalk backend.                     *)
(*                                                                         *)
(* Text is modelled as a sequence of characters; a Hangul syllable is one  *)
(* character, written in romanised form with the prefix "k_"               *)
(* ("k_eung" is the syllable EUNG), a Hangul jamo with the prefix "j_".    *)
(***************************************************************************)
EXTENDS Integers, Sequences, FiniteSets, TLC

VARIABLES
    pending_todos,   \* TodoProcessor.pending_todos: key -> flow
    last_result,     \* key -> the outcome of the last process_message call for it
    last_turn,       \* key -> the outcome of the last POST /messages for it
    last_call,       \* the last process_message call followed closely: what it was
                     \* given and the flow it found
    todo_lists,      \* the todo_lists table: a set of rows
    fcm_tokens,      \* the fcm_tokens table: token -> owner and is_active
    scan_pc,         \* "idle", or "sending" inside the loop of a reminder scan
    scan_rows,       \* the keys of the rows the running scan selected, in order
    scan_pos,        \* the position of the loop in scan_rows
    run,             \* the current or most recent scan: its now and its send calls
    creators,        \* the create_todo_compact calls: request -> its locals and position
    resolved,        \* the last call of the date resolver: its clock, its text, its value
    race             \* process_message calls running in threads: their locals and positions

engine_vars == <<pending_todos, last_result, last_turn, last_call, resolved, race>>
store_vars == <<todo_lists, fcm_tokens, scan_pc, scan_rows, scan_pos, run, creators>>
vars == <<pending_todos, last_result, last_turn, last_call, todo_lists, fcm_tokens,
          scan_pc, scan_rows, scan_pos, run, creators, resolved, race>>

(***************************************************************************)
(* Python values: None and str (a JSON payload may also hold a value that  *)
(* is neither, e.g. a number, which is truthy and has no .strip()).        *)
(***************************************************************************)
None == [t |-> "none", s |-> <<>>]
Str(s) == [t |-> "str", s |-> s]
Num == [t |-> "num", s |-> <<>>]
JTrue == [t |-> "true", s |-> <<>>]
JFalse == [t |-> "false", s |-> <<>>]

\* Python truthiness of a value
Truthy(v) ==
    CASE v.t = "none" -> FALSE
      [] v.t = "false" -> FALSE
      [] v.t = "str" -> v.s # <<>>
      [] OTHER -> TRUE

\* Python `v or ""`
OrEmpty(v) == IF Truthy(v) THEN v ELSE Str(<<>>)

(***************************************************************************)
(* str methods                                                             *)
(***************************************************************************)
IsSpace(c) == c = " "

RECURSIVE LStrip(_)
LStrip(s) == IF s # <<>> /\ IsSpace(Head(s)) THEN LStrip(Tail(s)) ELSE s

RECURSIVE RStrip(_)
RStrip(s) ==
    IF s # <<>> /\ IsSpace(s[Len(s)]) THEN RStrip(SubSeq(s, 1, Len(s) - 1)) ELSE s

\* str.strip()
Strip(s) == RStrip(LStrip(s))

\* `kw in s`
Contains(s, kw) ==
    \E i \in 1..(Len(s) - Len(kw) + 1) : SubSeq(s, i, i + Len(kw) - 1) = kw

\* s.startswith(p)
StartsWith(s, p) == Len(s) >= Len(p) /\ SubSeq(s, 1, Len(p)) = p

LowerChar(c) ==
    CASE c = "O" -> "o" [] c = "K" -> "k" [] c = "N" -> "n"
      [] c = "Y" -> "y" [] c = "E" -> "e" [] c = "S" -> "s"
      [] OTHER -> c

\* str.lower()
Lower(s) == [i \in 1..Len(s) |-> LowerChar(s[i])]

\* s.replace(" ", "")
RemoveSpaces(s) == SelectSeq(s, LAMBDA c : c # " ")

(***************************************************************************)
(* The NLU gateway (OpenAIClient.chat_completion) seen from the engine:    *)
(* a call raises, or returns a text.  A text is described by how it reads  *)
(* as JSON:                                                                *)
(*   form = "json"     the whole text is valid JSON (value)                *)
(*   form = "embedded" prose around one brace-balanced JSON object (value) *)
(*   form = "broken"   contains braces, but what is inside is not JSON     *)
(*   form = "prose"    no braces at all (e.g. the client's error sentences)*)
(* A JSON value is an object (obj = TRUE; a missing key reads as None) or  *)
(* another value, of which only its truthiness matters.                    *)
(***************************************************************************)
Obj(h, ta, d, ti, a) ==
    [obj |-> TRUE, truthy |-> TRUE,
     has_todo |-> h, task |-> ta, date |-> d, time |-> ti, answer |-> a]
EmptyObj ==
    [obj |-> TRUE, truthy |-> FALSE,
     has_todo |-> None, task |-> None, date |-> None, time |-> None, answer |-> None]
NonObj(truthy) ==
    [obj |-> FALSE, truthy |-> truthy,
     has_todo |-> None, task |-> None, date |-> None, time |-> None, answer |-> None]

Raises == [raises |-> TRUE, form |-> "prose", value |-> EmptyObj]
Text(form, value) == [raises |-> FALSE, form |-> form, value |-> value]

\* task titles, dates and times an extraction may carry
T_hospital == <<"k_byeong", "k_won", " ", "k_ga", "k_gi">>
T_pill == <<"k_yak">>
D_iso == <<"2", "0", "2", "5", "-", "1", "2", "-", "1", "0">>
D_tomorrow == <<"k_nae", "k_il">>
Tm_midnight == <<"0", "0", ":", "0", "0">>
Tm_ten == <<"1", "0", ":", "0", "0">>
Tm_am10 == <<"k_o", "k_jeon", " ", "1", "0", "k_si">>

\* extractions that report a todo
TodoValues ==
    { Obj(JTrue, Str(T_hospital), d, ti, None) :
        d \in {None, Str(D_iso), Str(<<" ">> \o D_tomorrow)},
        ti \in {None, Str(Tm_ten)} }
        \cup {Obj(JTrue, Str(<<" ">> \o T_pill), Str(D_iso), Str(Tm_midnight), None),
              Obj(Str(<<"n", "o">>), Str(T_pill), Str(<<>>), Str(<<>>), None)}

\* extractions that report none, or are malformed
OddValues ==
    { EmptyObj, NonObj(TRUE), NonObj(FALSE),
      Obj(JFalse, Str(T_pill), Str(D_iso), None, None),
      Obj(JTrue, None, Str(D_iso), None, None),
      Obj(JTrue, Str(<<" ">>), None, None, None),
      Obj(JTrue, Num, None, None, None),
      Obj(JTrue, Str(T_pill), Str(<<" ">>), Num, None) }

\* answers of the yes/no classification call
AnswerValues ==
    { Obj(None, None, None, None, a) :
        a \in {None, Num, Str(<<" ", "Y", "E", "S">>), Str(<<"n", "o">>),
               Str(<<"o", "t", "h", "e", "r">>), Str(<<"k_ne">>)} }
        \cup {EmptyObj, NonObj(TRUE)}

ExtractorReplies ==
    {Raises, Text("prose", EmptyObj), Text("broken", EmptyObj)}
        \cup {Text("json", v) : v \in TodoValues \cup OddValues}
        \cup {Text("embedded", Obj(JTrue, Str(T_pill), None, Str(Tm_am10), None))}

ClassifierReplies ==
    {Raises, Text("prose", EmptyObj)}
        \cup {Text("json", v) : v \in AnswerValues}
        \cup {Text("embedded", Obj(None, None, None, None, Str(<<"y", "e", "s">>)))}

(***************************************************************************)
(* A Python call either returns a value or raises.                         *)
(***************************************************************************)
Ret(v) == [raised |-> FALSE, val |-> v]
Raise == [raised |-> TRUE, val |-> None]

(***************************************************************************)
(* TodoProcessor                                                           *)
(***************************************************************************)
yes_keywords ==
    { <<"k_eung">>, <<"k_eo">>, <<"k_eo", "k_eo">>, <<"k_geu", "k_rae">>,
      <<"k_jo", "k_a">>, <<"k_nep">>, <<"k_ne">>, <<"k_ye">>, <<"k_ung">>,
      <<"j_ieung", "j_ieung">>, <<"o", "k">>, <<"o", "k", "a", "y">>,
      <<"k_ye", "k_seu">>, <<"j_ieung", "j_kieuk">>, <<"k_eong">>,
      <<"k_hae", "k_jwo">>, <<"k_hae", "k_ju", "k_se", "k_yo">>,
      <<"k_jo", "k_a", "k_yo">>, <<"k_deung", "k_rok">>,
      <<"k_deung", "k_rok", "k_hae", "k_jwo">> }

no_keywords ==
    { <<"k_a", "k_ni">>, <<"k_a", "k_nya">>, <<"j_nieun", "j_nieun">>,
      <<"k_no">>, <<"n", "o">>, <<"k_gwaen", "k_chanh", "k_a">>,
      <<"k_dwaess", "k_eo">> }

direct_register_keywords ==
    { <<"k_hal", "k_il", "k_deung", "k_rok">>,
      <<"k_hal", "k_il", "k_ro", "k_deung", "k_rok">>,
      <<"k_hal", "k_il", "k_chu", "k_ga">>,
      <<"k_hal", "k_il", "k_ro", "k_chu", "k_ga">> }

register_request_keywords ==
    { <<"k_deung", "k_rok", "k_hae", "k_jwo">>,
      <<"k_deung", "k_rok", "k_hae", "k_ju", "k_ra">>,
      <<"k_deung", "k_rok", "k_hae", "k_jul", "k_rae">>,
      <<"k_deung", "k_rok", "k_hae", "k_jwo", "k_ra">> }

\* the texts of the engine's answers, one token per literal piece
_result_none ==
    [response |-> <<>>, has_todo |-> FALSE, task |-> None, date |-> None,
     time |-> None, step |-> "none"]

_build_saved_message(task, date, time) ==
    LET tm == IF ~Truthy(time) \/ StartsWith(time.s, <<"0", "0", ":", "0", "0">>)
              THEN None ELSE time
    IN  IF Truthy(date) /\ Truthy(tm)
        THEN <<"[ok, '">> \o task.s \o <<"' by ">> \o date.s \o <<" ">> \o tm.s
                 \o <<" is registered]">>
        ELSE IF Truthy(date)
        THEN <<"[ok, '">> \o task.s \o <<"' by ">> \o date.s \o <<" is registered]">>
        ELSE <<"[ok, '">> \o task.s \o <<"' is registered]">>

_classify_yn_llm(text, reply) ==
    IF reply.raises THEN Raise
    ELSE IF reply.form # "json" THEN Ret("other")
    ELSE IF ~reply.value.obj THEN Raise
    ELSE LET a == OrEmpty(reply.value.answer)
         IN  IF a.t # "str" THEN Raise
             ELSE LET ans == Lower(Strip(a.s))
                  IN  IF ans = <<"y", "e", "s">> THEN Ret("yes")
                      ELSE IF ans = <<"n", "o">> THEN Ret("no")
                      ELSE Ret("other")

_normalize_yn(text, reply) ==
    LET t == Lower(Strip(text))
    IN  IF \E kw \in yes_keywords : Contains(t, kw) THEN "yes"
        ELSE IF \E kw \in no_keywords : Contains(t, kw) THEN "no"
        ELSE LET r == _classify_yn_llm(text, reply)
             IN  IF r.raised THEN "other" ELSE r.val

_parse_todo_json(reply) ==
    IF reply.form \in {"json", "embedded"} THEN reply.value ELSE EmptyObj

_call_todo_extractor(user_input, reply) ==
    IF reply.raises THEN Raise ELSE Ret(_parse_todo_json(reply))

\* `del self.pending_todos[key]` forgotten
Del_forgotten(pt, key) == pt

\* `del self.pending_todos[key]`: the dict without one key
Del(pt, key) == [k \in DOMAIN pt \ {key} |-> pt[k]]

\* a confirmed flow saved whether or not it carries a date
HasDate_unchecked(pending) == TRUE

\* `if date:` of the yes-branch
HasDate(pending) == Truthy(pending.date)

\* the empty-task guard left out
TaskMissing_unchecked(task) == FALSE

\* `if not task:` of the new-candidate path
TaskMissing(task) == ~Truthy(task)

\* the flow never written to the dict
Put_dropped(pt, key, flow) == pt

\* a write that leaves the flow the dict already holds
Put_kept(pt, key, flow) ==
    [k \in DOMAIN pt \cup {key} |-> IF k \in DOMAIN pt THEN pt[k] ELSE flow]

\* dict with one key set
Put(pt, key, flow) == [k \in DOMAIN pt \cup {key} |-> IF k = key THEN flow ELSE pt[k]]

Returned(result, pt) == [raised |-> FALSE, result |-> result, pending |-> pt]
Raised(pt) == [raised |-> TRUE, result |-> _result_none, pending |-> pt]

_handle_pending_todo(pt, key, user_input, reply) ==
    LET pending == pt[key]
    IN  IF pending.state = "ask_confirm"
        THEN LET yn == _normalize_yn(user_input, reply)
             IN  IF yn = "yes"
                 THEN IF HasDate(pending)
                      THEN Returned(
                               [response |-> _build_saved_message(
                                                 pending.task, pending.date, pending.time),
                                has_todo |-> TRUE, task |-> pending.task,
                                date |-> pending.date, time |-> pending.time,
                                step |-> "saved"],
                               Del(pt, key))
                      ELSE Returned(
                               [response |-> <<"[by when? tell me a date]">>,
                                has_todo |-> FALSE, task |-> pending.task,
                                date |-> None, time |-> None, step |-> "ask_date"],
                               Put(pt, key, [pending EXCEPT !.state = "ask_date"]))
                 ELSE IF yn = "no"
                 THEN Returned(
                          [response |-> <<"[all right, not registering this one]">>,
                           has_todo |-> FALSE, task |-> None, date |-> None,
                           time |-> None, step |-> "cancelled"],
                          Del(pt, key))
                 ELSE Returned(_result_none, Del(pt, key))
        ELSE IF pending.state = "ask_date"
        THEN LET date_text == Strip(user_input)
             IN  Returned(
                     [response |-> <<"[good, '">> \o pending.task.s \o <<"' by '">>
                                       \o date_text \o <<"' is registered]">>,
                      has_todo |-> TRUE, task |-> pending.task,
                      date |-> Str(date_text), time |-> None, step |-> "saved"],
                     Del(pt, key))
        ELSE Returned(_result_none, Del(pt, key))

_detect_new_todo(pt, key, user_input, reply) ==
    LET ext == _call_todo_extractor(user_input, reply)
        extracted == ext.val
        task_v == OrEmpty(extracted.task)
        date_v == OrEmpty(extracted.date)
        time_v == OrEmpty(extracted.time)
        task == Str(Strip(task_v.s))
        date == IF Strip(date_v.s) = <<>> THEN None ELSE Str(Strip(date_v.s))
        time_raw == Strip(time_v.s)
        time == IF time_raw \in { <<>>, <<"0", "0", ":", "0", "0">>,
                                  <<"0", "0", ":", "0", "0", ":", "0", "0">>,
                                  <<"0", ":", "0", "0">> }
                THEN None ELSE Str(time_raw)
        normalized == RemoveSpaces(user_input)
        direct_register ==
            \/ \E kw \in direct_register_keywords : Contains(normalized, kw)
            \/ /\ \E kw \in register_request_keywords : Contains(normalized, kw)
               /\ \/ Contains(normalized, <<"k_hal", "k_il">>)
                  \/ Contains(normalized, <<"k_hal", "k_il", "k_ro">>)
    IN  IF ext.raised THEN Returned(_result_none, pt)
        ELSE IF ~extracted.truthy THEN Returned(_result_none, pt)
        ELSE IF ~extracted.obj THEN Raised(pt)
        ELSE IF ~Truthy(extracted.has_todo) THEN Returned(_result_none, pt)
        ELSE IF task_v.t # "str" \/ date_v.t # "str" \/ time_v.t # "str" THEN Raised(pt)
        ELSE IF TaskMissing(task) THEN Returned(_result_none, pt)
        ELSE IF direct_register
        THEN IF Truthy(date)
             THEN Returned(
                      [response |-> _build_saved_message(task, date, time),
                       has_todo |-> TRUE, task |-> task, date |-> date,
                       time |-> time, step |-> "saved"],
                      Del(pt, key))
             ELSE Returned(
                      [response |-> <<"[registering it; by when? tell me a date]">>,
                       has_todo |-> FALSE, task |-> task, date |-> None,
                       time |-> None, step |-> "ask_date"],
                      Put(pt, key, [state |-> "ask_date", task |-> task,
                                    date |-> None, time |-> time]))
        ELSE Returned(
                 [response |-> <<"[shall I register '">> \o task.s \o <<"' as a todo?]">>,
                  has_todo |-> FALSE, task |-> task, date |-> date,
                  time |-> time, step |-> "suggest"],
                 Put(pt, key, [state |-> "ask_confirm", task |-> task,
                               date |-> date, time |-> time]))

\* process_message without its try/except
process_message_uncaught(pt, user_input, key, reply) ==
    IF key \in DOMAIN pt
    THEN _handle_pending_todo(pt, key, user_input, reply)
    ELSE _detect_new_todo(pt, key, user_input, reply)

\* the dict returned and the flow store left behind
process_message(pt, user_input, key, reply) ==
    LET r == IF key \in DOMAIN pt
             THEN _handle_pending_todo(pt, key, user_input, reply)
             ELSE _detect_new_todo(pt, key, user_input, reply)
    IN  IF r.raised
        THEN [raised |-> FALSE, result |-> _result_none, pending |-> r.pending]
        ELSE r

(***************************************************************************)
(* Observers of a turn, stated on its inputs: which path the turn takes,   *)
(* whether it calls the gateway, and whether that call fails (it raises,   *)
(* its text is not the JSON object the caller parses, or a field of the    *)
(* object has the wrong type).                                             *)
(***************************************************************************)
TurnPath(pt, key) ==
    IF key \notin DOMAIN pt THEN "new" ELSE pt[key].state

KeywordHit(user_input) ==
    \E kw \in yes_keywords \cup no_keywords : Contains(Lower(Strip(user_input)), kw)

GatewayCalled(pt, key, user_input) ==
    \/ TurnPath(pt, key) = "new"
    \/ TurnPath(pt, key) = "ask_confirm" /\ ~KeywordHit(user_input)

IllTyped(v) == v.t \notin {"none", "str"}

GatewayFailed(pt, key, reply) ==
    \/ reply.raises
    \/ reply.form \in {"prose", "broken"}
    \/ TurnPath(pt, key) # "new" /\ reply.form = "embedded"
    \/ ~reply.value.obj
    \/ TurnPath(pt, key) = "new" /\ reply.value.truthy /\ Truthy(reply.value.has_todo)
           /\ (IllTyped(reply.value.task) \/ IllTyped(reply.value.date)
                   \/ IllTyped(reply.value.time))
    \/ TurnPath(pt, key) # "new" /\ IllTyped(reply.value.answer)

(***************************************************************************)
(* Calendar dates and clock times.  A date is its proleptic Gregorian      *)
(* ordinal (datetime.date.toordinal), a time of day its seconds since      *)
(* midnight, a datetime the pair of the two.                               *)
(***************************************************************************)
NULL == -1

\* a NULL DATETIME column
NoStamp == [d |-> NULL, s |-> NULL]

IsLeap(y) == (y % 4 = 0 /\ y % 100 # 0) \/ y % 400 = 0

DaysInMonth(y, m) ==
    CASE m \in {1, 3, 5, 7, 8, 10, 12} -> 31
      [] m \in {4, 6, 9, 11} -> 30
      [] OTHER -> IF IsLeap(y) THEN 29 ELSE 28

RECURSIVE DaysBeforeMonth(_, _)
DaysBeforeMonth(y, m) ==
    IF m <= 1 THEN 0 ELSE DaysBeforeMonth(y, m - 1) + DaysInMonth(y, m - 1)

DaysBeforeYear(y) ==
    (y - 1) * 365 + (y - 1) \div 4 - (y - 1) \div 100 + (y - 1) \div 400

\* datetime.date(y, m, d): the date, or ValueError
date_t(y, m, d) ==
    IF y \in 1..9999 /\ m \in 1..12 /\ d \in 1..DaysInMonth(y, m)
    THEN Ret(DaysBeforeYear(y) + DaysBeforeMonth(y, m) + d)
    ELSE Raise

\* datetime.time(hour=h, minute=mn, second=sec): the time, or ValueError
time_t(h, mn, sec) ==
    IF h \in 0..23 /\ mn \in 0..59 /\ sec \in 0..59
    THEN Ret(h * 3600 + mn * 60 + sec)
    ELSE Raise

DateTime(d, secs) == [d |-> d, s |-> secs]

\* dt + timedelta(seconds = n), for 0 <= n
AddSeconds(dt, n) ==
    [d |-> dt.d + (dt.s + n) \div 86400, s |-> (dt.s + n) % 86400]

\* dt.replace(second=0, microsecond=0)
FloorMinute(dt) == [d |-> dt.d, s |-> dt.s - (dt.s % 60)]

(***************************************************************************)
(* Task Store: the todo_lists table and the todo service                   *)
(***************************************************************************)
Owners == {"u1"}

ToDoList(owner, num, task, due_date, due_time) ==
    [owner_cognito_id |-> owner, todo_num |-> num, task |-> task,
     is_completed |-> FALSE, due_date |-> due_date, due_time |-> due_time,
     reminder_sent_at |-> NoStamp]

\* the smallest of a non-empty set of numbers
Min(S) == CHOOSE n \in S : \A m \in S : n <= m

\* the loop over the used numbers in ascending order
RECURSIVE CompactScan(_, _)
CompactScan(used, expect) ==
    IF used = {} THEN expect
    ELSE LET n == Min(used)
         IN  IF n > expect THEN expect
             ELSE IF n = expect THEN CompactScan(used \ {n}, expect + 1)
             ELSE CompactScan(used \ {n}, expect)

\* the numbers an owner's rows use
UsedNums(tl, owner_id) ==
    {r.todo_num : r \in {x \in tl : x.owner_cognito_id = owner_id}}

\* numbering by max+1: a deleted number is never given again
_next_compact_todo_num_max(tl, owner_id) ==
    IF UsedNums(tl, owner_id) = {} THEN 1
    ELSE (CHOOSE n \in UsedNums(tl, owner_id) :
              \A m \in UsedNums(tl, owner_id) : m <= n) + 1

_next_compact_todo_num(tl, owner_id) ==
    CompactScan({r.todo_num : r \in {x \in tl : x.owner_cognito_id = owner_id}}, 1)

\* the table after the commit, and the row created; called with no other
\* creator at work, the first attempt commits
create_todo_compact(tl, owner_id, task, due_date, due_time) ==
    LET row == ToDoList(owner_id, _next_compact_todo_num(tl, owner_id),
                        task, due_date, due_time)
    IN  [rows |-> tl \cup {row}, row |-> row]

\* the rows with that key: none or one
get_todo_by_num(tl, owner_id, todo_num) ==
    {r \in tl : r.owner_cognito_id = owner_id /\ r.todo_num = todo_num}

delete_todo_by_num(tl, owner_id, todo_num) ==
    tl \ get_todo_by_num(tl, owner_id, todo_num)

\* re-opening or completing a todo forgets its reminder
toggle_complete_reset(tl, owner_id, todo_num) ==
    { IF r \in get_todo_by_num(tl, owner_id, todo_num)
      THEN [r EXCEPT !.is_completed = ~r.is_completed, !.reminder_sent_at = NoStamp]
      ELSE r : r \in tl }

toggle_complete(tl, owner_id, todo_num) ==
    { IF r \in get_todo_by_num(tl, owner_id, todo_num)
      THEN [r EXCEPT !.is_completed = ~r.is_completed] ELSE r : r \in tl }

\* a field assigned whether or not a value was given
Patched_always(old, new) == new

\* `if value is not None: row.field = value`
Patched(old, new) == IF new # NULL THEN new ELSE old

\* task is None or a str; due_date and due_time are NULL when not given
update_todo(tl, owner_id, todo_num, task, due_date, due_time) ==
    { IF r \in get_todo_by_num(tl, owner_id, todo_num)
      THEN [r EXCEPT !.task = IF task # None THEN task.s ELSE r.task,
                     !.due_date = Patched(r.due_date, due_date),
                     !.due_time = Patched(r.due_time, due_time)]
      ELSE r : r \in tl }

(***************************************************************************)
(* Date/time resolver of the chat router: _parse_korean_natural_datetime.  *)
(* re.search is the leftmost match; each \d{1,2} is followed by something  *)
(* that is not a digit, so the greedy length is the only one that matches. *)
(***************************************************************************)
IsDigit(c) == c \in {"0", "1", "2", "3", "4", "5", "6", "7", "8", "9"}

DigitVal(c) ==
    CASE c = "0" -> 0 [] c = "1" -> 1 [] c = "2" -> 2 [] c = "3" -> 3
      [] c = "4" -> 4 [] c = "5" -> 5 [] c = "6" -> 6 [] c = "7" -> 7
      [] c = "8" -> 8 [] c = "9" -> 9

\* int(s) of a string of digits
RECURSIVE IntOf(_)
IntOf(s) ==
    IF s = <<>> THEN 0
    ELSE IntOf(SubSeq(s, 1, Len(s) - 1)) * 10 + DigitVal(s[Len(s)])

\* the character at i, or "" past the end
At(s, i) == IF i \in 1..Len(s) THEN s[i] ELSE ""

DigitsAt(s, i, n) == \A k \in 0..(n - 1) : IsDigit(At(s, i + k))

\* how many characters \d{1,2} takes at i: 2, 1, or 0 for no match
Num12(s, i) == IF DigitsAt(s, i, 2) THEN 2 ELSE IF DigitsAt(s, i, 1) THEN 1 ELSE 0

\* where \s* ends when it starts at i
RECURSIVE SkipSpaces(_, _)
SkipSpaces(s, i) == IF IsSpace(At(s, i)) THEN SkipSpaces(s, i + 1) ELSE i

NoMatch == [ok |-> FALSE, g |-> <<>>]
Match(g) == [ok |-> TRUE, g |-> g]

\* (\d{4})-(\d{1,2})-(\d{1,2}) at i
IsoDateAt(s, i) ==
    LET n2 == Num12(s, i + 5)
        n3 == Num12(s, i + 6 + n2)
    IN  IF /\ DigitsAt(s, i, 4) /\ At(s, i + 4) = "-"
           /\ n2 > 0 /\ At(s, i + 5 + n2) = "-" /\ n3 > 0
        THEN Match(<<IntOf(SubSeq(s, i, i + 3)),
                     IntOf(SubSeq(s, i + 5, i + 4 + n2)),
                     IntOf(SubSeq(s, i + 6 + n2, i + 5 + n2 + n3))>>)
        ELSE NoMatch

\* (\d{1,2})\s*WOL\s*(\d{1,2})\s*IL at i ("11 wol 25 il")
MonthDayAt(s, i) ==
    LET n1 == Num12(s, i)
        j == SkipSpaces(s, i + n1)
        k == SkipSpaces(s, j + 1)
        n2 == Num12(s, k)
        l == SkipSpaces(s, k + n2)
    IN  IF n1 > 0 /\ At(s, j) = "k_wol" /\ n2 > 0 /\ At(s, l) = "k_il"
        THEN Match(<<IntOf(SubSeq(s, i, i + n1 - 1)), IntOf(SubSeq(s, k, k + n2 - 1))>>)
        ELSE NoMatch

\* (\d{1,2})[/-](\d{1,2}) at i
SlashDateAt(s, i) ==
    LET n1 == Num12(s, i)
        n2 == Num12(s, i + n1 + 1)
    IN  IF n1 > 0 /\ At(s, i + n1) \in {"/", "-"} /\ n2 > 0
        THEN Match(<<IntOf(SubSeq(s, i, i + n1 - 1)),
                     IntOf(SubSeq(s, i + n1 + 1, i + n1 + n2))>>)
        ELSE NoMatch

\* (\d{1,2}):(\d{2}) at i
ClockAt(s, i) ==
    LET n1 == Num12(s, i)
    IN  IF n1 > 0 /\ At(s, i + n1) = ":" /\ DigitsAt(s, i + n1 + 1, 2)
        THEN Match(<<IntOf(SubSeq(s, i, i + n1 - 1)),
                     IntOf(SubSeq(s, i + n1 + 1, i + n1 + 2))>>)
        ELSE NoMatch

\* (\d{1,2})\s*SI at i ("10 si")
HourAt(s, i) ==
    LET n1 == Num12(s, i)
    IN  IF n1 > 0 /\ At(s, SkipSpaces(s, i + n1)) = "k_si"
        THEN Match(<<IntOf(SubSeq(s, i, i + n1 - 1))>>)
        ELSE NoMatch

\* re.search: the match at the leftmost position that has one
IsoDateSearch(s) ==
    LET hits == {i \in 1..Len(s) : IsoDateAt(s, i).ok}
    IN  IF hits = {} THEN NoMatch ELSE IsoDateAt(s, Min(hits))
MonthDaySearch(s) ==
    LET hits == {i \in 1..Len(s) : MonthDayAt(s, i).ok}
    IN  IF hits = {} THEN NoMatch ELSE MonthDayAt(s, Min(hits))
SlashDateSearch(s) ==
    LET hits == {i \in 1..Len(s) : SlashDateAt(s, i).ok}
    IN  IF hits = {} THEN NoMatch ELSE SlashDateAt(s, Min(hits))
ClockSearch(s) ==
    LET hits == {i \in 1..Len(s) : ClockAt(s, i).ok}
    IN  IF hits = {} THEN NoMatch ELSE ClockAt(s, Min(hits))
HourSearch(s) ==
    LET hits == {i \in 1..Len(s) : HourAt(s, i).ok}
    IN  IF hits = {} THEN NoMatch ELSE HourAt(s, Min(hits))

\* date.weekday(): Monday is 0
Weekday(d) == (d - 1) % 7

\* a map that counts the days as isoweekday() does, Monday 1
weekday_map_iso ==
    << <<<<"k_wol">>, 1>>, <<<<"k_wol", "k_yo", "k_il">>, 1>>,
       <<<<"k_hwa">>, 2>>, <<<<"k_hwa", "k_yo", "k_il">>, 2>>,
       <<<<"k_su">>, 3>>, <<<<"k_su", "k_yo", "k_il">>, 3>>,
       <<<<"k_mok">>, 4>>, <<<<"k_mok", "k_yo", "k_il">>, 4>>,
       <<<<"k_geum">>, 5>>, <<<<"k_geum", "k_yo", "k_il">>, 5>>,
       <<<<"k_to">>, 6>>, <<<<"k_to", "k_yo", "k_il">>, 6>>,
       <<<<"k_il">>, 7>>, <<<<"k_il", "k_yo", "k_il">>, 7>> >>

\* weekday_map in its order of insertion
weekday_map ==
    << <<<<"k_wol">>, 0>>, <<<<"k_wol", "k_yo", "k_il">>, 0>>,
       <<<<"k_hwa">>, 1>>, <<<<"k_hwa", "k_yo", "k_il">>, 1>>,
       <<<<"k_su">>, 2>>, <<<<"k_su", "k_yo", "k_il">>, 2>>,
       <<<<"k_mok">>, 3>>, <<<<"k_mok", "k_yo", "k_il">>, 3>>,
       <<<<"k_geum">>, 4>>, <<<<"k_geum", "k_yo", "k_il">>, 4>>,
       <<<<"k_to">>, 5>>, <<<<"k_to", "k_yo", "k_il">>, 5>>,
       <<<<"k_il">>, 6>>, <<<<"k_il", "k_yo", "k_il">>, 6>> >>

\* the date part: the resolved date, or ValueError
TargetDate(s_date, today) ==
    LET tdy == date_t(today.y, today.m, today.d).val
        normalized == RemoveSpaces(s_date)
        next_week == <<"k_da", "k_eum", "k_ju">>
    IN  IF s_date = <<>> THEN Ret(tdy)
        ELSE IF StartsWith(normalized, <<"k_o", "k_neul">>) THEN Ret(tdy)
        ELSE IF StartsWith(normalized, <<"k_nae", "k_il">>) THEN Ret(tdy + 1)
        ELSE IF StartsWith(normalized, <<"k_mo", "k_re">>) THEN Ret(tdy + 2)
        ELSE IF StartsWith(normalized, next_week)
        THEN LET base_next_week == tdy + 7
                 rest == SubSeq(normalized, Len(next_week) + 1, Len(normalized))
                 found == {n \in 1..Len(weekday_map) : Contains(rest, weekday_map[n][1])}
             IN  IF rest = <<>> \/ found = {}
                 THEN Ret(base_next_week)
                 ELSE Ret((base_next_week - Weekday(base_next_week))
                              + weekday_map[Min(found)][2])
        ELSE LET m == IsoDateSearch(s_date)
                 m2 == IF MonthDaySearch(s_date).ok
                       THEN MonthDaySearch(s_date) ELSE SlashDateSearch(s_date)
             IN  IF m.ok THEN date_t(m.g[1], m.g[2], m.g[3])
                 ELSE IF m2.ok THEN date_t(today.y, m2.g[1], m2.g[2])
                 ELSE Ret(tdy)

\* the time part: the resolved time or NULL, or ValueError
TargetTime(t_source) ==
    LET m == ClockSearch(t_source)
        am == \E x \in {<<"k_o", "k_jeon">>, <<"k_a", "k_chim">>, <<"k_sae", "k_byeok">>} :
                  Contains(t_source, x)
        pm == \E x \in {<<"k_o", "k_hu">>, <<"k_jeo", "k_nyeok">>, <<"k_bam">>} :
                  Contains(t_source, x)
        m2 == HourSearch(t_source)
    IN  IF t_source = <<>> THEN Ret(NULL)
        ELSE IF m.ok THEN time_t(m.g[1], m.g[2], 0)
        ELSE IF m2.ok
        THEN LET h == m2.g[1]
             IN  IF am THEN time_t(IF h = 12 THEN 0 ELSE h, 0, 0)
                 ELSE IF pm THEN time_t(IF h < 12 THEN h + 12 ELSE h, 0, 0)
                 ELSE time_t(h, 0, 0)
        ELSE Ret(NULL)

\* date_text and time_text are None or a str, or a value that has no
\* .strip(); today is the date the clock shows
_parse_korean_natural_datetime(date_text, time_text, today) ==
    IF OrEmpty(date_text).t # "str" \/ OrEmpty(time_text).t # "str"
    THEN Raise
    ELSE LET s_date == Strip(OrEmpty(date_text).s)
             s_time == Strip(OrEmpty(time_text).s)
             target_date == TargetDate(s_date, today)
             target_time == TargetTime(IF s_time # <<>> THEN s_time ELSE s_date)
         IN  IF target_date.raised \/ target_time.raised
             THEN Raise
             ELSE Ret([due_date |-> target_date.val, due_time |-> target_time.val])

(***************************************************************************)
(* Notification gateway: the fcm_tokens table and send_push_to_user.       *)
(* fcm_tokens maps a registered token to its owner and is_active flag.     *)
(* A send raises (Firebase not initialised, or the multicast call fails),  *)
(* or FCM answers for each active token of the owner: "ok", "dead" (an     *)
(* unregistered token) or "err" (another failure).                         *)
(***************************************************************************)
Tokens == {"tk1", "tk2"}
TokenAnswers == {"ok", "dead", "err"}

upsert_token(ft, owner, token) ==
    [t \in DOMAIN ft \cup {token} |->
        IF t = token THEN [owner |-> owner, is_active |-> TRUE] ELSE ft[t]]

deactivate_token(ft, owner, token) ==
    IF token \in DOMAIN ft /\ ft[token].owner = owner
    THEN [ft EXCEPT ![token].is_active = FALSE]
    ELSE ft

ActiveTokens(ft, owner) ==
    {t \in DOMAIN ft : ft[t].owner = owner /\ ft[t].is_active}

\* (success, fail, deactivated) and the token rows as the session holds them
send_push_to_user(ft, owner, raises, answers) ==
    LET token_list == ActiveTokens(ft, owner)
    IN  IF raises
        THEN [raised |-> TRUE, success |-> 0, fail |-> 0, deactivated |-> 0,
              tokens |-> ft]
        ELSE [raised |-> FALSE,
              success |-> Cardinality({t \in token_list : answers[t] = "ok"}),
              fail |-> Cardinality({t \in token_list : answers[t] # "ok"}),
              deactivated |-> Cardinality({t \in token_list : answers[t] = "dead"}),
              tokens |-> [t \in DOMAIN ft |->
                             IF t \in token_list /\ answers[t] = "dead"
                             THEN [ft[t] EXCEPT !.is_active = FALSE] ELSE ft[t]]]

(***************************************************************************)
(* Reminder scan: process_due_todo_reminders                               *)
(***************************************************************************)
\* minutes_before as the scheduler job passes it
minutes_before == 30

\* SQL comparisons: not true when an operand is NULL
SqlGe(x, y) == x # NULL /\ y # NULL /\ x >= y
SqlLt(x, y) == x # NULL /\ y # NULL /\ x < y

\* the watermark condition left out of the query
base_conditions_unmarked_missing(r) ==
    r.is_completed = FALSE /\ r.due_time # NULL

base_conditions(r) ==
    /\ r.is_completed = FALSE
    /\ r.reminder_sent_at = NoStamp
    /\ r.due_time # NULL

window_start(now) == FloorMinute(AddSeconds(now, minutes_before * 60))
window_end(now) == AddSeconds(window_start(now), 60)

\* the end of the window taken as part of it
time_condition_closed(r, ws, we) ==
    IF we.d = ws.d
    THEN r.due_date = ws.d /\ SqlGe(r.due_time, ws.s) /\ r.due_time <= we.s
    ELSE \/ r.due_date = ws.d /\ SqlGe(r.due_time, ws.s)
         \/ r.due_date = we.d /\ r.due_time # NULL /\ r.due_time <= we.s

time_condition(r, ws, we) ==
    IF we.d = ws.d
    THEN r.due_date = ws.d /\ SqlGe(r.due_time, ws.s) /\ SqlLt(r.due_time, we.s)
    ELSE \/ r.due_date = ws.d /\ SqlGe(r.due_time, ws.s)
         \/ r.due_date = we.d /\ SqlLt(r.due_time, we.s)

\* the rows the scan's SELECT returns
Candidates(tl, now) ==
    {r \in tl : base_conditions(r)
                   /\ time_condition(r, window_start(now), window_end(now))}

PK(r) == <<r.owner_cognito_id, r.todo_num>>

\* the orders in which a SELECT without ORDER BY may return a set of rows
Orderings(S) ==
    {q \in [1..Cardinality(S) -> S] : \A i, j \in 1..Cardinality(S) : q[i] = q[j] => i = j}

\* the watermark set whatever the gateway reported
Delivered_any(success) == TRUE

\* `if success > 0:`
Delivered(success) == success > 0

(***************************************************************************)
(* Chat turns                                                              *)
(***************************************************************************)
Keys == {<<"u1", 1>>, <<"u2", 1>>}

\* what the user may say
M_eung == <<"k_eung">>
M_OK == <<" ", "O", "K">>
M_ani == <<"k_a", "k_ni">>
M_dwaesseo == <<"k_dwaess", "k_eo">>
M_weather == <<"k_nal", "k_ssi">>
M_blank == <<" ">>
M_tomorrow == <<"k_nae", "k_il", " ">>
M_register == <<"k_hal", "k_il", " ", "k_deung", "k_rok", "k_hae", "k_jwo">>
Messages ==
    {M_eung, M_OK, M_ani, M_dwaesseo, M_weather, M_blank, M_tomorrow, M_register}

NoCall ==
    [called |-> FALSE, path |-> "", failed |-> FALSE, raised |-> FALSE,
     result |-> _result_none]

\* the evening the model starts in: 2025-12-09 23:29:00
today == [y |-> 2025, m |-> 12, d |-> 9]
Today == date_t(today.y, today.m, today.d).val
Clock0 == DateTime(Today, time_t(23, 29, 0).val)
NoRun == [ran |-> FALSE, now |-> Clock0, log |-> <<>>]

\* the threads that may be inside process_message at the same time
Threads == {"t1", "t2"}
\* a dict object that is no flow
NoObj == [state |-> "", task |-> None, date |-> None, time |-> None, oid |-> 0]
\* a thread that is not inside process_message
IdleTurn ==
    [pc |-> "idle", user_input |-> <<>>, checked_at |-> 0, path |-> "",
     pending |-> NoObj, plan |-> _result_none, result |-> _result_none,
     wrote |-> 0, raised |-> FALSE]
NoRace == [turns |-> [t \in Threads |-> IdleTurn], made |-> 0, saved |-> <<>>]

\* no call of the date resolver yet
NoResolve == [called |-> FALSE, today |-> today, date_text |-> None, val |-> Raise]

\* the requests that may be inside create_todo_compact at the same time
Creators == {"c1", "c2"}
\* a request that has not called create_todo_compact
NoCreate ==
    [pc |-> "idle", owner_id |-> "", task |-> <<>>, used_nums |-> {}, new_num |-> 0,
     attempts |-> 0]

\* no flow found: `key in self.pending_todos` is false
NoFlow == [state |-> "", task |-> None, date |-> None, time |-> None]
\* no call followed yet
NoneSeen ==
    [called |-> FALSE, key |-> <<"u1", 1>>, user_input |-> <<>>, reply |-> Raises,
     pending |-> NoFlow]

NoMeta ==
    [has_todo |-> FALSE, step |-> "none", task |-> None, date |-> None,
     time |-> None, todo_num |-> NULL]
NoTurn == [status |-> "none", todo |-> NoMeta, created |-> {}]

Init ==
    /\ pending_todos = [k \in {} |-> 0]
    /\ last_result = [k \in Keys |-> NoCall]
    /\ last_turn = [k \in Keys |-> NoTurn]
    /\ last_call = NoneSeen
    /\ todo_lists = {}
    /\ fcm_tokens = [t \in {} |-> 0]
    /\ scan_pc = "idle"
    /\ scan_rows = <<>>
    /\ scan_pos = 0
    /\ run = NoRun
    /\ creators = [c \in Creators |-> NoCreate]
    /\ resolved = NoResolve
    /\ race = NoRace

Turn(key, msg, reply) ==
    LET r == process_message(pending_todos, msg, key, reply)
    IN  /\ UNCHANGED <<store_vars, last_turn, last_call, resolved, race>>
        /\ pending_todos' = r.pending
        /\ last_result' = [last_result EXCEPT ![key] =
               [called |-> TRUE,
                path |-> TurnPath(pending_todos, key),
                failed |-> GatewayCalled(pending_todos, key, msg)
                               /\ GatewayFailed(pending_todos, key, reply),
                raised |-> r.raised,
                result |-> r.result]]

Next ==
    \E key \in Keys, msg \in Messages :
        \E reply \in IF key \in DOMAIN pending_todos
                     THEN ClassifierReplies ELSE ExtractorReplies :
            Turn(key, msg, reply)

Spec == Init /\ [][Next]_vars

\* one conversation followed turn by turn: next to the turn's outcome, the
\* message, the gateway's answer and the flow the call found are kept
SeenKeys == {<<"u1", 1>>}

TurnSeen(key, msg, reply) ==
    /\ \E r \in {process_message(pending_todos, msg, key, reply)} :
           /\ pending_todos' = r.pending
           /\ last_result' = [last_result EXCEPT ![key] =
                  [called |-> TRUE,
                   path |-> TurnPath(pending_todos, key),
                   failed |-> GatewayCalled(pending_todos, key, msg)
                                  /\ GatewayFailed(pending_todos, key, reply),
                   raised |-> r.raised,
                   result |-> r.result]]
    /\ last_call' = [called |-> TRUE, key |-> key, user_input |-> msg, reply |-> reply,
                     pending |-> IF key \in DOMAIN pending_todos
                                 THEN pending_todos[key] ELSE NoFlow]
    /\ UNCHANGED <<store_vars, last_turn, resolved, race>>

NextSeen ==
    \E key \in SeenKeys, msg \in Messages :
        \E reply \in IF key \in DOMAIN pending_todos
                     THEN ClassifierReplies ELSE ExtractorReplies :
            TurnSeen(key, msg, reply)

SpecSeen == Init /\ [][NextSeen]_vars

\* the most rows the model lets the todo_lists table hold
MaxTodos == 2

(***************************************************************************)
(* The chat router: POST /messages (append_message_with_ai).  The chat     *)
(* history rows it writes do not bear on todos and are left out; msg is    *)
(* the text handed to chat(): the request's message, or on the backfill    *)
(* route the stored user message that has no answer yet.                   *)
(***************************************************************************)
\* ChatService.chat as the router calls it, with chat_list_num: the todo
\* fields of its result are the engine's result for the turn
chat(pt, user_id, message, chat_list_num, reply) ==
    process_message(pt, message, <<user_id, chat_list_num>>, reply)

\* the table after the call, the row created if one was, or the exception
_maybe_create_todo_from_ai(tl, owner_id, ai_result, tdy) ==
    IF ~(ai_result.has_todo /\ ai_result.step = "saved")
    THEN [raised |-> FALSE, rows |-> tl, created |-> {}]
    ELSE IF ~Truthy(ai_result.task) \/ ~Truthy(ai_result.date)
    THEN [raised |-> FALSE, rows |-> tl, created |-> {}]
    ELSE LET parsed == _parse_korean_natural_datetime(ai_result.date, ai_result.time, tdy)
         IN  IF parsed.raised
             THEN [raised |-> TRUE, rows |-> tl, created |-> {}]
             ELSE LET made == create_todo_compact(tl, owner_id, ai_result.task.s,
                                                  parsed.val.due_date, parsed.val.due_time)
                  IN  [raised |-> FALSE, rows |-> made.rows, created |-> {made.row}]

\* TodoMeta(...) as the router fills it
TodoMeta(ai_result, created) ==
    [has_todo |-> ai_result.has_todo, step |-> ai_result.step,
     task |-> ai_result.task, date |-> ai_result.date, time |-> ai_result.time,
     todo_num |-> IF created = {} THEN NULL
                  ELSE (CHOOSE row \in created : TRUE).todo_num]

\* task, date and time are declared Optional[str]
MetaFieldsAreStr(ai_result) ==
    \A v \in {ai_result.task, ai_result.date, ai_result.time} : v.t \in {"none", "str"}

\* strict: the validation of TodoMeta rejects a field that is not a str
\* (otherwise it converts it)
\* the response: HTTP 500, or the todo meta (with the row the turn created)
TurnResponse(ai_result, made, strict) ==
    IF made.raised \/ (strict /\ ~MetaFieldsAreStr(ai_result))
    THEN [status |-> "error", todo |-> NoMeta, created |-> made.created]
    ELSE [status |-> "ok", todo |-> TodoMeta(ai_result, made.created),
          created |-> made.created]

append_message_with_ai(key, msg, reply, strict) ==
    /\ Cardinality(todo_lists) < MaxTodos
    /\ \E turn \in {chat(pending_todos, key[1], msg, key[2], reply)} :
         \E made \in {_maybe_create_todo_from_ai(todo_lists, key[1], turn.result, today)} :
             /\ pending_todos' = turn.pending
             /\ todo_lists' = made.rows
             /\ last_turn' = [last_turn EXCEPT ![key] =
                                 TurnResponse(turn.result, made, strict)]
    /\ UNCHANGED <<last_result, last_call, fcm_tokens, scan_pc, scan_rows, scan_pos, run,
                   creators, resolved, race>>

(***************************************************************************)
(* Task Store operations, device tokens and the reminder scan.             *)
(* Requests and scans are taken one at a time: a request is served         *)
(* between two scans, not inside the loop of one.                          *)
(***************************************************************************)
StoreTasks == {T_pill}
PatchTasks == {None}
DueDates == {Today, Today + 1}
DueTimes == {NULL, time_t(23, 59, 0).val, time_t(0, 0, 0).val}
\* the instants at which the clock is read
ScanTimes == {Clock0, AddSeconds(Clock0, 30), AddSeconds(Clock0, 60)}

\* seconds from the start of Today to an instant
Elapsed(dt) == (dt.d - Today) * 86400 + dt.s

\* POST /todos
CreateTodo(owner, task, due_date, due_time) ==
    /\ scan_pc = "idle"
    /\ Cardinality(todo_lists) < MaxTodos
    /\ todo_lists' = create_todo_compact(todo_lists, owner, task, due_date, due_time).rows
    /\ UNCHANGED <<engine_vars, creators, fcm_tokens, scan_pc, scan_rows, scan_pos, run>>

\* DELETE /todos/{todo_num}
DeleteTodo(owner, todo_num) ==
    /\ scan_pc = "idle"
    /\ get_todo_by_num(todo_lists, owner, todo_num) # {}
    /\ todo_lists' = delete_todo_by_num(todo_lists, owner, todo_num)
    /\ UNCHANGED <<engine_vars, creators, fcm_tokens, scan_pc, scan_rows, scan_pos, run>>

\* PATCH /todos/complete: toggle_complete for one number of the request
ToggleComplete(owner, todo_num) ==
    /\ scan_pc = "idle"
    /\ get_todo_by_num(todo_lists, owner, todo_num) # {}
    /\ todo_lists' = toggle_complete(todo_lists, owner, todo_num)
    /\ UNCHANGED <<engine_vars, creators, fcm_tokens, scan_pc, scan_rows, scan_pos, run>>

\* PATCH /todos/{todo_num}
UpdateTodo(owner, todo_num, tk, due_date, due_time) ==
    /\ scan_pc = "idle"
    /\ get_todo_by_num(todo_lists, owner, todo_num) # {}
    /\ todo_lists' = update_todo(todo_lists, owner, todo_num, tk, due_date, due_time)
    /\ UNCHANGED <<engine_vars, creators, fcm_tokens, scan_pc, scan_rows, scan_pos, run>>

\* POST /fcm/token
RegisterToken(owner, token) ==
    /\ scan_pc = "idle"
    /\ fcm_tokens' = upsert_token(fcm_tokens, owner, token)
    /\ UNCHANGED <<engine_vars, creators, todo_lists, scan_pc, scan_rows, scan_pos, run>>

\* DELETE /fcm/token
UnregisterToken(owner, token) ==
    /\ scan_pc = "idle"
    /\ token \in DOMAIN fcm_tokens
    /\ fcm_tokens' = deactivate_token(fcm_tokens, owner, token)
    /\ UNCHANGED <<engine_vars, creators, todo_lists, scan_pc, scan_rows, scan_pos, run>>

\* process_due_todo_reminders up to the loop: now is read from the clock,
\* which does not run backwards between two scans, and the rows are
\* selected; with no row selected the scan is over
ScanStart(now, order) ==
    /\ scan_pc = "idle"
    /\ Elapsed(now) >= Elapsed(run.now)
    /\ order \in Orderings({PK(r) : r \in Candidates(todo_lists, now)})
    /\ run' = [ran |-> TRUE, now |-> now, log |-> <<>>]
    /\ scan_rows' = order
    /\ IF order = <<>>
       THEN scan_pc' = "idle" /\ scan_pos' = 0
       ELSE scan_pc' = "sending" /\ scan_pos' = 1
    /\ UNCHANGED <<engine_vars, creators, todo_lists, fcm_tokens>>

\* what the gateway may do with a send to that owner
SendOutcomes(owner) ==
    {[raises |-> TRUE, answers |-> [t \in {} |-> "ok"]]}
    \cup {[raises |-> FALSE, answers |-> a] :
             a \in [ActiveTokens(fcm_tokens, owner) -> TokenAnswers]}

\* a loop that an exception ends
LoopDone_on_error(pos, rows, raised) == raised \/ pos = Len(rows)

\* `for todo in rows:` is over after the last row; the except clause logs
\* and goes on
LoopDone(pos, rows, raised) == pos = Len(rows)

\* one iteration of the loop: the send, the watermark, and the commit or
\* the rollback; after the last row the scan is over
ScanSend(outcome) ==
    /\ scan_pc = "sending"
    /\ LET pk == scan_rows[scan_pos]
           todo == CHOOSE r \in todo_lists : PK(r) = pk
           sent == send_push_to_user(fcm_tokens, todo.owner_cognito_id,
                                     outcome.raises, outcome.answers)
           call == [pk |-> pk,
                    was_marked |-> todo.reminder_sent_at # NoStamp,
                    due_date |-> todo.due_date,
                    due_time |-> todo.due_time,
                    success |-> sent.success,
                    raised |-> sent.raised]
       IN  /\ run' = [run EXCEPT !.log = Append(@, call)]
           /\ IF sent.raised
              THEN UNCHANGED <<todo_lists, fcm_tokens>>
              ELSE /\ fcm_tokens' = sent.tokens
                   /\ todo_lists' =
                          IF Delivered(sent.success)
                          THEN (todo_lists \ {todo})
                                   \cup {[todo EXCEPT !.reminder_sent_at = run.now]}
                          ELSE todo_lists
    /\ IF LoopDone(scan_pos, scan_rows, outcome.raises)
       THEN scan_pc' = "idle" /\ scan_pos' = 0
       ELSE scan_pc' = "sending" /\ scan_pos' = scan_pos + 1
    /\ UNCHANGED <<engine_vars, creators, scan_rows>>

NextStore ==
    \/ \E owner \in Owners, task \in StoreTasks, dd \in DueDates, dt \in DueTimes :
           CreateTodo(owner, task, dd, dt)
    \/ \E r \in todo_lists : DeleteTodo(r.owner_cognito_id, r.todo_num)
    \/ \E r \in todo_lists : ToggleComplete(r.owner_cognito_id, r.todo_num)
    \/ \E r \in todo_lists, tk \in PatchTasks, dd \in DueDates \cup {NULL}, dt \in DueTimes :
           UpdateTodo(r.owner_cognito_id, r.todo_num, tk, dd, dt)
    \/ \E owner \in Owners, token \in Tokens : RegisterToken(owner, token)
    \/ \E owner \in Owners, token \in Tokens : UnregisterToken(owner, token)
    \/ \E now \in ScanTimes :
           \E order \in Orderings({PK(r) : r \in Candidates(todo_lists, now)}) :
               ScanStart(now, order)
    \/ /\ scan_pc = "sending"
       /\ \E outcome \in SendOutcomes(scan_rows[scan_pos][1]) : ScanSend(outcome)

SpecStore == Init /\ [][NextStore]_vars

\* chat turns of the users whose todos the model follows, who may also
\* delete their todos
NextChat ==
    \/ \E key \in {k \in Keys : k[1] \in Owners}, msg \in Messages, strict \in BOOLEAN :
           \E reply \in IF key \in DOMAIN pending_todos
                        THEN ClassifierReplies ELSE ExtractorReplies :
               append_message_with_ai(key, msg, reply, strict)
    \/ \E r \in todo_lists : DeleteTodo(r.owner_cognito_id, r.todo_num)

SpecChat == Init /\ [][NextChat]_vars

(***************************************************************************)
(* create_todo_compact step by step.  Each request has its own Session;    *)
(* the SELECT of _next_compact_todo_num reads the committed rows, and the  *)
(* INSERT of db.commit() is checked against the composite primary key      *)
(* (owner_cognito_id, todo_num) of the committed rows.  Other requests     *)
(* may commit between the two.                                             *)
(***************************************************************************)
MAX_RETRY == 5

\* the most rows, committed or about to be, the numbering model lets exist
MaxRows == 3

CreateOwners == {"u1", "u2"}

\* what each request asks to create
CreatorTask(c) == IF c = "c1" THEN T_pill ELSE T_hospital

InFlight(c) == creators[c].pc \in {"select", "commit"}

\* the row the request has added to its session
PendingRow(c) ==
    ToDoList(creators[c].owner_id, creators[c].new_num, creators[c].task, Today, NULL)

\* the primary key checked by no one
IntegrityError_missed(tl, row) == FALSE

\* the INSERT meets a committed row with the same primary key
IntegrityError(tl, row) == \E r \in tl : PK(r) = PK(row)

\* a loop that never gives up
Exhausted_never(attempts) == FALSE

\* `for _ in range(MAX_RETRY)` has run out
Exhausted(attempts) == attempts >= MAX_RETRY

\* a request enters create_todo_compact
CallCreate(c, owner_id) ==
    /\ ~InFlight(c)
    /\ Cardinality(todo_lists) + Cardinality({d \in Creators : InFlight(d)}) < MaxRows
    /\ creators' = [creators EXCEPT ![c] =
           [pc |-> "select", owner_id |-> owner_id, task |-> CreatorTask(c),
            used_nums |-> {}, new_num |-> 0, attempts |-> 0]]
    /\ UNCHANGED <<engine_vars, todo_lists, fcm_tokens, scan_pc, scan_rows, scan_pos, run>>

\* new_num = _next_compact_todo_num(db, owner_id); row = ToDoList(...); db.add(row)
SelectNum(c) ==
    /\ creators[c].pc = "select"
    /\ creators' = [creators EXCEPT ![c].pc = "commit",
           ![c].used_nums = UsedNums(todo_lists, creators[c].owner_id),
           ![c].new_num = _next_compact_todo_num(todo_lists, creators[c].owner_id)]
    /\ UNCHANGED <<engine_vars, todo_lists, fcm_tokens, scan_pc, scan_rows, scan_pos, run>>

\* db.commit(): the row is stored and returned; or IntegrityError, rollback
\* and the next round of the loop, or RuntimeError after the last round
Commit(c) ==
    /\ creators[c].pc = "commit"
    /\ IF IntegrityError(todo_lists, PendingRow(c))
       THEN /\ todo_lists' = todo_lists
            /\ creators' = [creators EXCEPT ![c].attempts = @ + 1,
                   ![c].pc = IF Exhausted(creators[c].attempts + 1)
                             THEN "raised" ELSE "select"]
       ELSE /\ todo_lists' = todo_lists \cup {PendingRow(c)}
            /\ creators' = [creators EXCEPT ![c].attempts = @ + 1, ![c].pc = "returned"]
    /\ UNCHANGED <<engine_vars, fcm_tokens, scan_pc, scan_rows, scan_pos, run>>

\* requests that create and delete at the same time
NextCreate ==
    \/ \E c \in Creators, owner_id \in CreateOwners : CallCreate(c, owner_id)
    \/ \E c \in Creators : SelectNum(c)
    \/ \E c \in Creators : Commit(c)
    \/ \E r \in todo_lists : DeleteTodo(r.owner_cognito_id, r.todo_num)

SpecCreate == Init /\ [][NextCreate]_vars

\* no request in flight
Quiet == \A c \in Creators : ~InFlight(c)

\* requests served one after the other
NextSerial ==
    \/ Quiet /\ \E c \in Creators, owner_id \in CreateOwners : CallCreate(c, owner_id)
    \/ \E c \in Creators : SelectNum(c)
    \/ \E c \in Creators : Commit(c)
    \/ Quiet /\ \E r \in todo_lists : DeleteTodo(r.owner_cognito_id, r.todo_num)

SpecSerial == Init /\ [][NextSerial]_vars

(***************************************************************************)
(* Properties of the engine                                                *)
(***************************************************************************)
\* C1: no stuck flow.  After any sequence of process_message turns, a key
\* whose most recent returned step is neither "suggest" nor "ask_date" has
\* no flow in pending_todos.
C1_NoStuckFlow ==
    \A k \in Keys :
        last_result[k].result.step \notin {"suggest", "ask_date"}
            => k \notin DOMAIN pending_todos

\* a flow that existed was answered "no" and is gone, while the other key
\* still holds its own flow
C1_Witness ==
    \E k \in Keys, j \in Keys :
        /\ last_result[k].path = "ask_confirm"
        /\ last_result[k].result.step = "cancelled"
        /\ k \notin DOMAIN pending_todos
        /\ j \in DOMAIN pending_todos

\* C2: process_message never raises to its caller, whatever the gateway
\* does, on the flow-continuation and on the new-candidate path; and a turn
\* whose gateway call failed returns step "none", has_todo false and an
\* empty response.
C2_NeverRaises ==
    \A k \in Keys :
        /\ ~last_result[k].raised
        /\ last_result[k].failed =>
               /\ last_result[k].result.step = "none"
               /\ last_result[k].result.has_todo = FALSE
               /\ last_result[k].result.response = <<>>

\* a failed gateway call on the new-candidate path and one on the
\* flow-continuation path
C2_Witness ==
    \E k \in Keys, j \in Keys :
        /\ last_result[k].failed /\ last_result[k].path = "new"
        /\ last_result[j].failed /\ last_result[j].path = "ask_confirm"

\* C3: in every result returned, has_todo is true only when step is
\* "saved", and whenever has_todo is true the date is not None.
C3_HasTodoOnlySavedWithDate ==
    \A k \in Keys :
        last_result[k].result.has_todo =>
            /\ last_result[k].result.step = "saved"
            /\ last_result[k].result.date # None

\* a todo saved from a confirmed flow, and one from a reply to the date
\* question
C3_Witness ==
    \E k \in Keys, j \in Keys :
        /\ last_result[k].result.has_todo /\ last_result[k].path = "ask_confirm"
        /\ last_result[j].result.has_todo /\ last_result[j].path = "ask_date"

\* C4: every result whose step is "suggest", "ask_date" or "saved" carries
\* a task that is a non-empty string.
C4_TaskNonEmpty ==
    \A k \in Keys :
        last_result[k].result.step \in {"suggest", "ask_date", "saved"} =>
            /\ last_result[k].result.task.t = "str"
            /\ last_result[k].result.task.s # <<>>

\* a suggestion whose extracted title needed trimming, and a date question
C4_Witness ==
    \E k \in Keys, j \in Keys :
        /\ last_result[k].result.step = "suggest"
        /\ last_result[k].result.task = Str(T_pill)
        /\ last_result[j].result.step = "ask_date"

(***************************************************************************)
(* Properties of the reminder scan                                         *)
(***************************************************************************)
Marked(r) == r.reminder_sent_at # NoStamp

InSeq(x, q) == \E i \in 1..Len(q) : q[i] = x

\* a step that starts a scan at now
ScanStartAt(now) ==
    /\ scan_pc = "idle"
    /\ todo_lists' = todo_lists
    /\ run'.now = now
    /\ \E order \in Orderings({PK(r) : r \in Candidates(todo_lists, now)}) :
           ScanStart(now, order)

\* a step that starts a scan
ScanStartStep == \E now \in ScanTimes : ScanStartAt(now)

\* a task's due instant, in seconds from the start of Today
DueAt(r) == (r.due_date - Today) * 86400 + r.due_time

\* C6: a task's reminder_sent_at goes from null to a timestamp at most
\* once, and only in a step of a scan whose send for that task reported
\* success > 0 and did not raise; once set it never changes, and no task
\* is created with it set.
C6_WatermarkOnceOnSuccess ==
    [][ \A q \in todo_lists' \ todo_lists :
          /\ (\A r \in todo_lists : PK(r) # PK(q)) => ~Marked(q)
          /\ \A r \in todo_lists : PK(r) = PK(q) =>
                /\ Marked(r) => q.reminder_sent_at = r.reminder_sent_at
                /\ (~Marked(r) /\ Marked(q)) =>
                      /\ scan_pc = "sending"
                      /\ scan_rows[scan_pos] = PK(r)
                      /\ Len(run'.log) = Len(run.log) + 1
                      /\ run'.log[Len(run'.log)].pk = PK(r)
                      /\ run'.log[Len(run'.log)].success > 0
                      /\ ~run'.log[Len(run'.log)].raised
                      /\ q.reminder_sent_at = run.now ]_vars

\* one scan sent for two tasks: one send delivered and set the watermark,
\* the other delivered nothing and left its task unmarked
C6_Witness ==
    /\ scan_pc = "idle"
    /\ Len(run.log) = 2
    /\ \E i, j \in 1..2 :
          /\ run.log[i].success > 0
          /\ \E r \in todo_lists : PK(r) = run.log[i].pk /\ r.reminder_sent_at = run.now
          /\ run.log[j].success = 0
          /\ \E r \in todo_lists : PK(r) = run.log[j].pk /\ ~Marked(r)

\* C7: idempotent reminders.  A scan never selects a task that carries a
\* watermark, so a second scan for the same now after a delivered first
\* one selects none of the tasks the first one marked; and no send is ever
\* made for a task that is marked, so each task is notified at most once.
C7_IdempotentReminders ==
    /\ [][ ScanStartStep =>
              \A r \in todo_lists : Marked(r) => ~InSeq(PK(r), scan_rows') ]_vars
    /\ [](\A i \in 1..Len(run.log) : ~run.log[i].was_marked)

\* the second of two scans for the same now is over: the first marked a
\* task with that now, the task is otherwise still due in the window, and
\* the second made no send at all
C7_Witness ==
    /\ scan_pc = "idle"
    /\ run.ran
    /\ run.log = <<>>
    /\ \E r \in todo_lists :
          /\ r.reminder_sent_at = run.now
          /\ r.is_completed = FALSE
          /\ time_condition(r, window_start(run.now), window_end(run.now))

\* C8: a task whose send delivered nothing in one scan, and which is
\* unchanged and still incomplete and unmarked, is selected again by the
\* next scan one minute later.
C8_FailedRetriedNextMinute ==
    [][ (ScanStartStep /\ run.ran /\ Elapsed(run'.now) = Elapsed(run.now) + 60) =>
           \A i \in 1..Len(run.log) :
               \A r \in todo_lists :
                   ( /\ run.log[i].success = 0
                     /\ PK(r) = run.log[i].pk
                     /\ r.due_date = run.log[i].due_date
                     /\ r.due_time = run.log[i].due_time
                     /\ base_conditions(r) )
                   => InSeq(PK(r), scan_rows') ]_vars

\* the tasks a scan at now must select: incomplete, with a due time, with
\* no watermark, and due within the minute that starts at ws
DueWithin(tl, ws) ==
    {PK(r) : r \in {x \in tl : /\ x.is_completed = FALSE
                                /\ x.due_time # NULL
                                /\ ~Marked(x)
                                /\ DueAt(x) >= ws
                                /\ DueAt(x) < ws + 60}}

\* the sends of a scan are made for the rows it selected, in their order,
\* and for all of them once the scan is over
SendsFollowSelection ==
    /\ Len(run.log) <= Len(scan_rows)
    /\ \A i \in 1..Len(run.log) : run.log[i].pk = scan_rows[i]
    /\ scan_pc = "idle" => Len(run.log) = Len(scan_rows)

\* C9 as stated: the window starts at now + L, to the second.
C9_WindowFromNow ==
    /\ [][ \A now \in ScanTimes :
              ScanStartAt(now)
              => {scan_rows'[i] : i \in 1..Len(scan_rows')}
                     = DueWithin(todo_lists, Elapsed(now) + minutes_before * 60) ]_vars
    /\ []SendsFollowSelection

\* C9, amended: a scan at now with lead L sends for a task if and only if
\* the task is incomplete, has a due time, has no watermark, and is due in
\* the minute that starts at now + L with its seconds cut off; for every
\* now and also when that minute is the last of a day.
C9_WindowFromFlooredMinute ==
    /\ [][ \A now \in ScanTimes :
              ScanStartAt(now)
              => {scan_rows'[i] : i \in 1..Len(scan_rows')}
                     = DueWithin(todo_lists,
                                 (Elapsed(now) + minutes_before * 60)
                                     - ((Elapsed(now) + minutes_before * 60) % 60)) ]_vars
    /\ []SendsFollowSelection

\* a scan read the clock in the middle of a minute, its window was the
\* last minute of the day, and it sent for a task due in that minute while
\* a task due at midnight was left alone
C9_Witness ==
    /\ scan_pc = "idle"
    /\ run.now.s % 60 # 0
    /\ window_end(run.now).d # window_start(run.now).d
    /\ Len(run.log) = 1
    /\ \E r \in todo_lists :
          /\ ~InSeq(PK(r), scan_rows)
          /\ base_conditions(r)
          /\ r.due_date = window_end(run.now).d
          /\ r.due_time = window_end(run.now).s

\* C10: a task whose due_time is null is never a reminder candidate: every
\* task with a watermark has a due time, and no send is made for a task
\* without one.
C10_NullTimeNeverCandidate ==
    /\ \A r \in todo_lists : Marked(r) => r.due_time # NULL
    /\ \A i \in 1..Len(run.log) : run.log[i].due_time # NULL

\* a marked task was rescheduled and completed after its reminder, next to
\* a task that has no due time and has been through the same scans
C10_Witness ==
    /\ scan_pc = "idle"
    /\ \E r \in todo_lists, q \in todo_lists :
          /\ Marked(r)
          /\ r.is_completed
          /\ \E i \in 1..Len(run.log) :
                run.log[i].pk = PK(r) /\ run.log[i].due_time # r.due_time
          /\ q.due_time = NULL

SmallestUnused(n, used) ==
    /\ n >= 1
    /\ n \notin used
    /\ \A m \in 1..(n - 1) : m \in used

\* C11: compact numbering.  With requests served one after the other, after
\* any sequence of creates and deletes, a row that create_todo_compact
\* stores bears the smallest positive integer that no row of its owner
\* uses at that moment (not max+1); the rows of other owners do not count.
C11_CompactNumbering ==
    [][\A row \in todo_lists' \ todo_lists :
           SmallestUnused(row.todo_num, UsedNums(todo_lists, row.owner_cognito_id))]_vars

\* 1, 2 and 3 were created, 2 was deleted, and the next create was given 2
C11_Witness ==
    \E c \in Creators :
        /\ creators[c].pc = "returned"
        /\ creators[c].used_nums = {1, 3}
        /\ creators[c].new_num = 2
        /\ UsedNums(todo_lists, creators[c].owner_id) = {1, 2, 3}

\* a commit that met the uniqueness conflict stores nothing and goes back to
\* the SELECT, and the number computed after a conflict is one that no
\* committed row of the owner uses when it is computed
RetriesAfresh ==
    \A c \in Creators :
        /\ (creators[c].pc = "commit" /\ creators'[c].pc = "select") =>
               /\ todo_lists' = todo_lists
               /\ \E r \in todo_lists : PK(r) = PK(PendingRow(c))
        /\ (creators[c].pc = "select" /\ creators'[c].pc = "commit"
                /\ creators[c].attempts > 0) =>
               SmallestUnused(creators'[c].new_num,
                              UsedNums(todo_lists, creators[c].owner_id))

\* C12: under any interleaving of create_todo_compact calls (and deletes),
\* no two committed rows of one owner share a todo_num; a creator whose
\* commit hits the uniqueness conflict rolls back and retries with a number
\* computed afresh from the committed rows.
C12_UniqueUnderConcurrency ==
    /\ [](\A r1 \in todo_lists, r2 \in todo_lists : PK(r1) = PK(r2) => r1 = r2)
    /\ [][RetriesAfresh]_vars

\* two requests computed the same number for one owner; one committed, the
\* other met the conflict, retried and committed under the next number
C12_Witness ==
    \E c \in Creators, d \in Creators :
        /\ creators[c].pc = "returned" /\ creators[c].attempts = 1
        /\ creators[d].pc = "returned" /\ creators[d].attempts = 2
        /\ creators[c].owner_id = creators[d].owner_id
        /\ creators[c].new_num = 1 /\ creators[d].new_num = 2
        /\ {PendingRow(c), PendingRow(d)} \subseteq todo_lists

\* the rows a request's calls have stored
RowsOf(tl, c) == {r \in tl : r.task = CreatorTask(c)}

\* a call stores a row only in the step in which it returns, and stores
\* none in the step in which it raises
StoresOnlyOnReturn ==
    \A c \in Creators :
        /\ RowsOf(todo_lists', c) \ RowsOf(todo_lists, c) # {} => creators'[c].pc = "returned"
        /\ (creators[c].pc # "raised" /\ creators'[c].pc = "raised") =>
               todo_lists' = todo_lists

\* C13: create_todo_compact makes at most MAX_RETRY commit attempts; a call
\* whose MAX_RETRY attempts all met the conflict has raised (it is not in
\* the loop any more and has not returned), a call raises only then, and a
\* call that raised stored no row.
C13_BoundedRetry ==
    /\ [](\A c \in Creators :
            /\ creators[c].attempts <= MAX_RETRY
            /\ InFlight(c) => creators[c].attempts < MAX_RETRY
            /\ creators[c].pc = "raised" => creators[c].attempts = MAX_RETRY
            /\ creators[c].pc = "returned" => creators[c].attempts >= 1)
    /\ [][StoresOnlyOnReturn]_vars

\* a call whose five attempts all met a conflict: it raised, and no row of
\* its task exists
C13_Witness ==
    \E c \in Creators :
        /\ creators[c].pc = "raised"
        /\ creators[c].attempts = MAX_RETRY
        /\ RowsOf(todo_lists, c) = {}
(***************************************************************************)
(* Properties of the flow store and of each branch of a turn               *)
(***************************************************************************)
\* C14: in every reachable state of the flow store, every pending flow has
\* a task that is a non-empty string and a state that is "ask_confirm" or
\* "ask_date".
C14_FlowsWellFormed ==
    \A k \in DOMAIN pending_todos :
        /\ pending_todos[k].state \in {"ask_confirm", "ask_date"}
        /\ pending_todos[k].task.t = "str"
        /\ pending_todos[k].task.s # <<>>

\* a flow awaiting confirmation whose extracted title needed trimming, and
\* a flow awaiting a date
C14_Witness ==
    \E k \in DOMAIN pending_todos, j \in DOMAIN pending_todos :
        /\ pending_todos[k].state = "ask_confirm" /\ pending_todos[k].task = Str(T_pill)
        /\ pending_todos[j].state = "ask_date"

\* the call followed closely, its outcome and the flow it left
Seen == last_call
SeenResult == last_result[last_call.key].result
SeenFlowGone == last_call.key \notin DOMAIN pending_todos

\* the call found a flow awaiting confirmation, and the reply is classified yn
ConfirmTurn(yn) ==
    /\ Seen.called
    /\ Seen.pending.state = "ask_confirm"
    /\ _normalize_yn(Seen.user_input, Seen.reply) = yn

\* C15: with a flow awaiting confirmation that carries a date, a reply
\* classified "yes" deletes the flow and returns step "saved", has_todo
\* true, and exactly the task, date and time stored in the flow.
C15_YesWithDateSaves ==
    (ConfirmTurn("yes") /\ Truthy(Seen.pending.date)) =>
        /\ SeenFlowGone
        /\ SeenResult.step = "saved"
        /\ SeenResult.has_todo = TRUE
        /\ SeenResult.task = Seen.pending.task
        /\ SeenResult.date = Seen.pending.date
        /\ SeenResult.time = Seen.pending.time

\* a suggestion with date and time was confirmed and saved with both
C15_Witness ==
    /\ ConfirmTurn("yes")
    /\ Seen.pending.date = Str(D_iso)
    /\ Seen.pending.time = Str(Tm_ten)
    /\ SeenResult.step = "saved"

\* C16: with a flow awaiting confirmation that carries no date, a reply
\* classified "yes" keeps the flow of that key and changes only its state,
\* to "ask_date", and returns step "ask_date" with has_todo false, the
\* flow's task and date None.
C16_YesWithoutDateAsks ==
    (ConfirmTurn("yes") /\ ~Truthy(Seen.pending.date)) =>
        /\ ~SeenFlowGone
        /\ pending_todos[Seen.key] = [Seen.pending EXCEPT !.state = "ask_date"]
        /\ SeenResult.step = "ask_date"
        /\ SeenResult.has_todo = FALSE
        /\ SeenResult.task = Seen.pending.task
        /\ SeenResult.date = None

\* a suggestion with a time and no date was confirmed: the flow now awaits
\* the date and still holds the time
C16_Witness ==
    /\ ConfirmTurn("yes")
    /\ Seen.pending.date = None
    /\ Seen.pending.time = Str(Tm_ten)
    /\ ~SeenFlowGone
    /\ pending_todos[Seen.key].state = "ask_date"
    /\ pending_todos[Seen.key].time = Str(Tm_ten)

\* C17: with a flow awaiting confirmation, a reply classified "no" deletes
\* the flow and returns step "cancelled" with has_todo false; the router
\* creates no row from that result.
C17_NoCancels ==
    ConfirmTurn("no") =>
        /\ SeenFlowGone
        /\ SeenResult.step = "cancelled"
        /\ SeenResult.has_todo = FALSE
        /\ _maybe_create_todo_from_ai(todo_lists, Seen.key[1], SeenResult, today).created = {}

\* a suggestion that carried a date was declined in words that hold no
\* keyword: the classification call answered "no"
C17_Witness ==
    /\ ConfirmTurn("no")
    /\ Seen.pending.date = Str(D_iso)
    /\ ~KeywordHit(Seen.user_input)
    /\ SeenResult.step = "cancelled"

\* C18: with a flow awaiting confirmation, a reply classified neither yes
\* nor no, which includes every reply without a keyword whose
\* classification call fails or answers something unparsable, deletes the
\* flow and returns step "none" with an empty response.
C18_OtherAbandons ==
    (/\ Seen.called
     /\ Seen.pending.state = "ask_confirm"
     /\ \/ _normalize_yn(Seen.user_input, Seen.reply) \notin {"yes", "no"}
        \/ /\ ~KeywordHit(Seen.user_input)
           /\ \/ Seen.reply.raises
              \/ Seen.reply.form # "json"
              \/ ~Seen.reply.value.obj
              \/ IllTyped(Seen.reply.value.answer)) =>
        /\ SeenFlowGone
        /\ SeenResult.step = "none"
        /\ SeenResult.has_todo = FALSE
        /\ SeenResult.response = <<>>

\* the classification call answered prose to a reply without a keyword,
\* and the flow is gone
C18_Witness ==
    /\ Seen.called
    /\ Seen.pending.state = "ask_confirm"
    /\ ~KeywordHit(Seen.user_input)
    /\ Seen.reply.form = "prose"
    /\ SeenResult.step = "none"
    /\ SeenFlowGone

\* the call found a flow awaiting a date
DateTurn == Seen.called /\ Seen.pending.state = "ask_date"

\* the reply, read as a date expression, gives no calendar date: it is
\* blank, or the resolver finds none of its patterns in it (and falls back
\* on today), or what it finds is no date of the calendar
Unresolvable(msg) ==
    \/ Strip(msg) = <<>>
    \/ /\ \A w \in { <<"k_o", "k_neul">>, <<"k_nae", "k_il">>, <<"k_mo", "k_re">>,
                       <<"k_da", "k_eum", "k_ju">> } :
               ~StartsWith(RemoveSpaces(Strip(msg)), w)
       /\ ~IsoDateSearch(Strip(msg)).ok
       /\ ~MonthDaySearch(Strip(msg)).ok
       /\ ~SlashDateSearch(Strip(msg)).ok
    \/ _parse_korean_natural_datetime(Str(Strip(msg)), None, today).raised

ExplicitRequest(msg) ==
    \/ \E kw \in direct_register_keywords : Contains(RemoveSpaces(msg), kw)
    \/ /\ \E kw \in register_request_keywords : Contains(RemoveSpaces(msg), kw)
       /\ Contains(RemoveSpaces(msg), <<"k_hal", "k_il">>)

\* the extraction call returned an object that reports a todo with a title
HasTask(reply) ==
    /\ ~reply.raises
    /\ reply.form \in {"json", "embedded"}
    /\ reply.value.obj
    /\ Truthy(reply.value.has_todo)
    /\ ~IllTyped(reply.value.task) /\ ~IllTyped(reply.value.date)
    /\ ~IllTyped(reply.value.time)
    /\ Strip(OrEmpty(reply.value.task).s) # <<>>

\* an extracted field as the flow holds it: trimmed, None when blank
Held(v) == IF Strip(OrEmpty(v).s) = <<>> THEN None ELSE Str(Strip(OrEmpty(v).s))

\* the times of day that are taken for "no time given"
MidnightTexts ==
    { Str(<<"0", "0", ":", "0", "0">>), Str(<<"0", "0", ":", "0", "0", ":", "0", "0">>),
      Str(<<"0", ":", "0", "0">>) }

\* the call found no flow, the extraction has a task and the message is no
\* explicit registration request
MentionTurn ==
    /\ Seen.called
    /\ Seen.pending = NoFlow
    /\ HasTask(Seen.reply)
    /\ ~ExplicitRequest(Seen.user_input)

\* C20: in new-candidate detection, an ordinary mention (the extraction has
\* a task, the message is no explicit registration request) always creates
\* a flow in state "ask_confirm" holding the extracted task, date and time
\* (trimmed; a time of midnight counts as none) and returns step "suggest"
\* with has_todo false, whether or not a date or time was extracted.
C20_MentionAlwaysSuggests ==
    MentionTurn =>
        /\ ~SeenFlowGone
        /\ pending_todos[Seen.key].state = "ask_confirm"
        /\ pending_todos[Seen.key].task = Held(Seen.reply.value.task)
        /\ pending_todos[Seen.key].date = Held(Seen.reply.value.date)
        /\ pending_todos[Seen.key].time =
               IF Held(Seen.reply.value.time) \in MidnightTexts
               THEN None ELSE Held(Seen.reply.value.time)
        /\ SeenResult.step = "suggest"
        /\ SeenResult.has_todo = FALSE
        /\ SeenResult.task = pending_todos[Seen.key].task
        /\ SeenResult.date = pending_todos[Seen.key].date
        /\ SeenResult.time = pending_todos[Seen.key].time

\* a mention whose extraction carries date and time was answered with a
\* suggestion, and the flow awaiting confirmation holds both
C20_Witness ==
    /\ MentionTurn
    /\ Truthy(Seen.reply.value.date) /\ Truthy(Seen.reply.value.time)
    /\ SeenResult.step = "suggest"
    /\ pending_todos[Seen.key].state = "ask_confirm"
    /\ pending_todos[Seen.key].date = Str(D_iso)
    /\ pending_todos[Seen.key].time = Str(Tm_ten)
\* the call found no flow and the message asks outright to register the
\* task the extraction reports
ExplicitTurn ==
    /\ Seen.called
    /\ Seen.pending = NoFlow
    /\ HasTask(Seen.reply)
    /\ ExplicitRequest(Seen.user_input)

\* C21: in new-candidate detection, an explicit registration request with
\* an extracted date returns step "saved" with has_todo true at once and
\* leaves no flow for the key; an explicit request without a date creates a
\* flow in state "ask_date" and returns step "ask_date" with has_todo false.
C21_ExplicitRequest ==
    ExplicitTurn =>
        IF Held(Seen.reply.value.date) # None
        THEN /\ SeenFlowGone
             /\ SeenResult.step = "saved"
             /\ SeenResult.has_todo = TRUE
             /\ SeenResult.task = Held(Seen.reply.value.task)
             /\ SeenResult.date = Held(Seen.reply.value.date)
        ELSE /\ ~SeenFlowGone
             /\ pending_todos[Seen.key].state = "ask_date"
             /\ pending_todos[Seen.key].task = Held(Seen.reply.value.task)
             /\ SeenResult.step = "ask_date"
             /\ SeenResult.has_todo = FALSE

\* an explicit request whose extraction carries a date was saved in the
\* same turn
C21_Witness ==
    /\ ExplicitTurn
    /\ Held(Seen.reply.value.date) = Str(D_iso)
    /\ SeenResult.step = "saved"
    /\ SeenFlowGone

\* the extraction gives no candidate: the call fails or its text holds no
\* JSON, the JSON is no mapping or an empty one, has_todo is false, or the
\* task is empty after trimming
NoCandidate(reply) ==
    \/ reply.raises
    \/ reply.form \in {"prose", "broken"}
    \/ ~reply.value.obj
    \/ ~reply.value.truthy
    \/ ~Truthy(reply.value.has_todo)
    \/ ~IllTyped(reply.value.task) /\ Strip(OrEmpty(reply.value.task).s) = <<>>

\* C22: in new-candidate detection, if the extractor yields no mapping,
\* has_todo false, or a task that is empty after trimming, the result is
\* step "none" and the flow store is left unchanged: no flow is created
\* for the key.
C22_NoCandidateNoFlow ==
    (Seen.called /\ Seen.pending = NoFlow /\ NoCandidate(Seen.reply)) =>
        /\ SeenResult.step = "none"
        /\ SeenResult.has_todo = FALSE
        /\ SeenFlowGone

\* an extraction that reports a todo whose title is blank, on a message
\* that asks to register: nothing is kept
C22_Witness ==
    /\ Seen.called
    /\ Seen.pending = NoFlow
    /\ Truthy(Seen.reply.value.has_todo)
    /\ Seen.reply.value.task = Str(<<" ">>)
    /\ Seen.user_input = M_register
    /\ SeenResult.step = "none"
    /\ SeenFlowGone

\* the reply holds an affirmative, a negative keyword
YesHit(msg) == \E kw \in yes_keywords : Contains(Lower(Strip(msg)), kw)
NoHit(msg) == \E kw \in no_keywords : Contains(Lower(Strip(msg)), kw)

\* the label the classification call yields: the answer of its JSON
\* object, or "other" when the call fails or its output cannot be parsed
GatewayAnswer(reply) ==
    IF reply.raises \/ reply.form # "json" \/ ~reply.value.obj
           \/ reply.value.answer.t # "str"
    THEN "other"
    ELSE IF Lower(Strip(reply.value.answer.s)) = <<"y", "e", "s">> THEN "yes"
    ELSE IF Lower(Strip(reply.value.answer.s)) = <<"n", "o">> THEN "no"
    ELSE "other"

\* how a turn on a flow awaiting confirmation took the reply, read off its
\* result
TakenAs(result) ==
    CASE result.step \in {"saved", "ask_date"} -> "yes"
      [] result.step = "cancelled" -> "no"
      [] OTHER -> "other"

\* C23: the intent classifier answers "yes" by itself only when the reply
\* holds an affirmative and no negative keyword, "no" by itself only when
\* it holds a negative and no affirmative keyword; when both or neither
\* match, the label is that of one classification call, "other" when the
\* call's output cannot be parsed.
C23_KeywordsThenGateway ==
    (Seen.called /\ Seen.pending.state = "ask_confirm") =>
        TakenAs(SeenResult) =
            IF YesHit(Seen.user_input) /\ ~NoHit(Seen.user_input) THEN "yes"
            ELSE IF NoHit(Seen.user_input) /\ ~YesHit(Seen.user_input) THEN "no"
            ELSE GatewayAnswer(Seen.reply)

\* C27: bounded flow lifetime.  A flow that a turn of its key found and
\* left in place (a flow awaiting confirmation, moved to awaiting a date)
\* is deleted by the next turn of that key; a flow awaiting a date never
\* survives a turn.  So a flow is gone no later than the second turn after
\* the one that created it.
C27_BoundedFlowLifetime ==
    /\ []((Seen.called /\ Seen.pending.state = "ask_date") => SeenFlowGone)
    /\ []((Seen.called /\ Seen.pending.state = "ask_confirm" /\ ~SeenFlowGone) =>
             pending_todos[Seen.key].state = "ask_date")
    /\ [][(Seen.called /\ Seen.pending # NoFlow /\ ~SeenFlowGone) =>
             Seen.key \notin DOMAIN pending_todos']_vars

\* a flow awaiting confirmation was moved to awaiting a date by one reply
\* and deleted by the next
C27_Witness ==
    /\ Seen.called
    /\ Seen.pending.state = "ask_date"
    /\ Seen.pending.time = Str(Tm_ten)
    /\ Seen.user_input = M_weather
    /\ SeenFlowGone

\* C29: a "saved" result produced from a flow awaiting a date always has
\* time None, also when the flow was created with an extracted time in it;
\* the time stored in a flow reaches a saved result only when a flow
\* awaiting confirmation that carries a date is answered "yes".
C29_AskDateDropsTime ==
    /\ DateTurn => (SeenResult.step = "saved" /\ SeenResult.time = None)
    /\ (Seen.called /\ Seen.pending # NoFlow /\ SeenResult.step = "saved"
            /\ SeenResult.time # None) =>
           /\ Seen.pending.state = "ask_confirm"
           /\ Truthy(Seen.pending.date)
           /\ SeenResult.time = Seen.pending.time

\* an explicit request without a date left a flow that held the extracted
\* time; the reply to the date question was saved without it
C29_Witness ==
    /\ DateTurn
    /\ Seen.pending.time = Str(Tm_ten)
    /\ Seen.user_input = M_tomorrow
    /\ SeenResult.step = "saved"
    /\ SeenResult.time = None
(***************************************************************************)
(* Further properties of the reminder scan                                 *)
(***************************************************************************)
\* C24: within one scan the watermark is committed task by task.  A send
\* step, whether it delivers, delivers nothing or raises, leaves every
\* watermark set before it in place, and is followed by the send for the
\* next selected row if there is one; when the scan is over a send has
\* been made for every selected row.
C24_PerTaskCommit ==
    /\ [][ scan_pc = "sending" =>
              /\ \A r \in todo_lists : Marked(r) => r \in todo_lists'
              /\ scan_pos < Len(scan_rows) =>
                     (scan_pc' = "sending" /\ scan_pos' = scan_pos + 1) ]_vars
    /\ []((scan_pc = "idle" /\ run.ran) =>
             /\ Len(run.log) = Len(scan_rows)
             /\ \A i \in 1..Len(run.log) : run.log[i].pk = scan_rows[i])

\* a scan of two rows is over: the first send delivered and its row bears
\* the watermark of this scan, the second raised
C24_Witness ==
    /\ scan_pc = "idle"
    /\ Len(run.log) = 2
    /\ run.log[1].success > 0
    /\ run.log[2].raised
    /\ \E r \in todo_lists : PK(r) = run.log[1].pk /\ r.reminder_sent_at = run.now
    /\ \E q \in todo_lists : PK(q) = run.log[2].pk /\ ~Marked(q)

\* C30: no operation of the task store other than the reminder scan
\* changes reminder_sent_at: outside the send steps of a scan (create,
\* delete, toggle_complete, update_todo with any edit of due_date or
\* due_time) a task keeps the value it has; so a scan never selects a task
\* whose reminder was sent, also after the task was rescheduled or
\* re-opened.
C30_OnlyScanMarks ==
    /\ [][ scan_pc = "idle" =>
              \A r \in todo_lists, q \in todo_lists' :
                  PK(q) = PK(r) => q.reminder_sent_at = r.reminder_sent_at ]_vars
    /\ [][ (scan_pc = "idle" /\ scan_pc' = "sending") =>
              \A i \in 1..Len(scan_rows') :
                  \A r \in todo_lists : PK(r) = scan_rows'[i] => ~Marked(r) ]_vars

\* a task was marked by one scan and then moved into the window of a later
\* scan, incomplete; the later scan is over and made no send for it
C30_Witness ==
    /\ scan_pc = "idle"
    /\ run.ran
    /\ \E r \in todo_lists :
          /\ Marked(r)
          /\ r.reminder_sent_at # run.now
          /\ r.is_completed = FALSE
          /\ time_condition(r, window_start(run.now), window_end(run.now))
          /\ \A i \in 1..Len(run.log) : run.log[i].pk # PK(r)
(***************************************************************************)
(* The date resolver on its own: _parse_korean_natural_datetime called     *)
(* with a date text and no time text, on each day of two weeks that span   *)
(* the end of a month and of a year.                                       *)
(***************************************************************************)
\* the values of now.date(): 2025-12-22 (a Monday) to 2026-01-04
Todays ==
    {[y |-> 2025, m |-> 12, d |-> d] : d \in 22..31}
        \cup {[y |-> 2026, m |-> 1, d |-> d] : d \in 1..4}

\* the names of the days of the week, Monday first
DayNames == <<"k_wol", "k_hwa", "k_su", "k_mok", "k_geum", "k_to", "k_il">>

\* "next week" followed by the i-th day of the week, with its short or its
\* long name, written with or without spaces
NextWeekday(i, long, spaced) ==
    (IF spaced THEN <<"k_da", "k_eum", " ", "k_ju", " ">> ELSE <<"k_da", "k_eum", "k_ju">>)
        \o <<DayNames[i]>> \o (IF long THEN <<"k_yo", "k_il">> ELSE <<>>)
NextWeekdayTexts ==
    {NextWeekday(i, long, spaced) : i \in 1..7, long \in BOOLEAN, spaced \in BOOLEAN}

\* "next week" alone, and "next week" followed by no name of a day
NextWeekBare == <<"k_da", "k_eum", "k_ju">>
NextWeekOther == <<"k_da", "k_eum", " ", "k_ju", " ", "k_jeo", "k_nyeok">>

DateTexts == NextWeekdayTexts \cup {NextWeekBare, NextWeekOther, D_tomorrow, D_iso}

\* one call of the resolver with date_text and time_text None
Resolve(tdy, date_text) ==
    /\ resolved' = [called |-> TRUE, today |-> tdy, date_text |-> Str(date_text),
                    val |-> _parse_korean_natural_datetime(Str(date_text), None, tdy)]
    /\ UNCHANGED <<pending_todos, last_result, last_turn, last_call, race, store_vars>>

NextResolve == \E tdy \in Todays, date_text \in DateTexts : Resolve(tdy, date_text)

SpecResolve == Init /\ [][NextResolve]_vars

\* the day now.date() is, and the day one week after it
ResolvedToday == date_t(resolved.today.y, resolved.today.m, resolved.today.d).val
OneWeekOut == ResolvedToday + 7
\* the Monday of the week a day is in
MondayOf(d) == d - Weekday(d)

\* C26 as stated: "next week" followed by the name of a day resolves to the
\* day one week after today, which has the weekday of today, whatever day
\* is named.
C26_SameWeekdayOneWeekOut ==
    (resolved.called /\ resolved.date_text.s \in NextWeekdayTexts) =>
        /\ ~resolved.val.raised
        /\ resolved.val.val.due_date = OneWeekOut

\* C26, amended: "next week" followed by the name of a day resolves to the
\* named day of the Monday-to-Sunday week that holds the day one week after
\* today, for every weekday of today and every named day; it is the day one
\* week after today only when the named day is today's weekday, or when no
\* day is named.  No time is resolved.
C26_NamedDayOfNextWeek ==
    resolved.called =>
        /\ \A i \in 1..7, long \in BOOLEAN, spaced \in BOOLEAN :
               resolved.date_text.s = NextWeekday(i, long, spaced) =>
                   /\ ~resolved.val.raised
                   /\ resolved.val.val.due_date = MondayOf(OneWeekOut) + (i - 1)
                   /\ resolved.val.val.due_time = NULL
                   /\ (resolved.val.val.due_date = OneWeekOut)
                          <=> (i - 1 = Weekday(ResolvedToday))
        /\ resolved.date_text.s \in {NextWeekBare, NextWeekOther} =>
               /\ ~resolved.val.raised
               /\ resolved.val.val.due_date = OneWeekOut

\* on a Sunday "next week Monday" was resolved: it is the next day
C26_Witness ==
    /\ resolved.called
    /\ Weekday(ResolvedToday) = 6
    /\ resolved.date_text.s = NextWeekday(1, TRUE, TRUE)
    /\ ~resolved.val.raised
    /\ resolved.val.val.due_date = ResolvedToday + 1
(***************************************************************************)
(* process_message step by step, for turns of one key that run in threads  *)
(* on the one TodoProcessor.  A step is one access to self.pending_todos   *)
(* or to a flow dict; what lies between two accesses (the gateway call,    *)
(* the locals) touches nothing shared.  A flow is a dict object: the dict  *)
(* of flows and the local `pending` of a thread refer to the same object,  *)
(* so a flow carries an identity (oid) and `pending["state"] = ...` shows  *)
(* wherever the object is referred to.                                     *)
(***************************************************************************)
\* the flows made in one behaviour
MaxFlows == 2

RaceKey == <<"u1", 1>>
EmptyStore == [k \in {} |-> 0]

RaceMessages == {M_eung, M_ani, M_tomorrow, M_register}
RaceExtractions ==
    {Text("json", Obj(JTrue, Str(T_hospital), None, Str(Tm_ten), None)),
     Text("json", Obj(JTrue, Str(<<" ">> \o T_pill), Str(D_iso), Str(Tm_midnight), None)),
     Text("prose", EmptyObj)}
RaceAnswers ==
    {Text("json", Obj(None, None, None, None, Str(<<" ", "Y", "E", "S">>))), Raises}

WithOid(flow, n) ==
    [state |-> flow.state, task |-> flow.task, date |-> flow.date,
     time |-> flow.time, oid |-> n]

Active(t) == race.turns[t].pc \notin {"idle", "done"}

\* the thread returns from process_message
Done(turn, result, raised) ==
    [turn EXCEPT !.pc = "done", !.result = result, !.raised = raised]

\* a turn enters process_message: `if key in self.pending_todos`.  The
\* results of the turns that had returned before are with their callers.
RaceCheck(t, msg) ==
    /\ ~Active(t)
    /\ \/ RaceKey \in DOMAIN pending_todos
       \/ race.made + Cardinality({u \in Threads : race.turns[u].pc = "detect"}) < MaxFlows
    /\ race' = [race EXCEPT !.turns =
           [u \in Threads |->
               IF u = t
               THEN [IdleTurn EXCEPT
                        !.pc = IF RaceKey \in DOMAIN pending_todos THEN "get" ELSE "detect",
                        !.path = IF RaceKey \in DOMAIN pending_todos THEN "pending" ELSE "new",
                        !.user_input = msg,
                        !.checked_at = race.made]
               ELSE IF Active(u) THEN race.turns[u] ELSE IdleTurn]]
    /\ UNCHANGED <<pending_todos, last_result, last_turn, last_call, resolved, store_vars>>

\* _detect_new_todo after the extraction call: the write, or the pop, or
\* neither
RaceDetect(t, reply) ==
    /\ race.turns[t].pc = "detect"
    /\ \E r \in {_detect_new_todo(EmptyStore, RaceKey, race.turns[t].user_input, reply)} :
          LET result == IF r.raised THEN _result_none ELSE r.result
              writes == RaceKey \in DOMAIN r.pending
              oid == race.made + 1
          IN  /\ pending_todos' =
                     IF writes
                     THEN Put(pending_todos, RaceKey, WithOid(r.pending[RaceKey], oid))
                     ELSE IF result.step = "saved"
                     THEN Del(pending_todos, RaceKey)
                     ELSE pending_todos
              /\ race' = [race EXCEPT
                     !.made = IF writes THEN oid ELSE @,
                     !.turns[t] = Done([@ EXCEPT !.wrote = IF writes THEN oid ELSE 0],
                                       result, r.raised)]
    /\ UNCHANGED <<last_result, last_turn, last_call, resolved, store_vars>>

\* `pending = self.pending_todos.get(key)` and `if not pending`
RaceGet(t) ==
    /\ race.turns[t].pc = "get"
    /\ race' = [race EXCEPT !.turns[t] =
           IF RaceKey \in DOMAIN pending_todos
           THEN [@ EXCEPT !.pc = "state", !.pending = pending_todos[RaceKey]]
           ELSE Done(@, _result_none, FALSE)]
    /\ UNCHANGED <<pending_todos, last_result, last_turn, last_call, resolved, store_vars>>

\* `state = pending.get("state")` and the branch taken on it, with the
\* classification of the reply: the result to return, and whether the flow
\* is to be deleted or to be put back
RaceState(t, reply) ==
    /\ race.turns[t].pc = "state"
    /\ \E r \in {_handle_pending_todo(Put(EmptyStore, RaceKey, race.turns[t].pending),
                                      RaceKey, race.turns[t].user_input, reply)} :
          race' = [race EXCEPT !.turns[t] =
              [@ EXCEPT !.plan = r.result,
                        !.pc = IF RaceKey \in DOMAIN r.pending THEN "set" ELSE "del"]]
    /\ UNCHANGED <<pending_todos, last_result, last_turn, last_call, resolved, store_vars>>

\* `pending["state"] = "ask_date"`: the object changes, wherever it is
RaceSetState(t) ==
    /\ race.turns[t].pc = "set"
    /\ LET oid == race.turns[t].pending.oid
           Set(obj) == IF obj.oid = oid THEN [obj EXCEPT !.state = "ask_date"] ELSE obj
       IN  /\ pending_todos' = [k \in DOMAIN pending_todos |-> Set(pending_todos[k])]
           /\ race' = [race EXCEPT !.turns =
                  [u \in Threads |->
                      [race.turns[u] EXCEPT !.pending = Set(@),
                                            !.pc = IF u = t THEN "reinsert" ELSE @]]]
    /\ UNCHANGED <<last_result, last_turn, last_call, resolved, store_vars>>

\* `self.pending_todos[key] = pending` and the return of the question
RaceReinsert(t) ==
    /\ race.turns[t].pc = "reinsert"
    /\ pending_todos' = Put(pending_todos, RaceKey, race.turns[t].pending)
    /\ race' = [race EXCEPT !.turns[t] = Done(@, @.plan, FALSE)]
    /\ UNCHANGED <<last_result, last_turn, last_call, resolved, store_vars>>

\* `del self.pending_todos[key]` and the return; a KeyError is caught by
\* process_message, which returns _result_none()
RaceDel(t) ==
    /\ race.turns[t].pc = "del"
    /\ IF RaceKey \in DOMAIN pending_todos
       THEN /\ pending_todos' = Del(pending_todos, RaceKey)
            /\ race' = [race EXCEPT
                   !.turns[t] = Done(@, @.plan, FALSE),
                   !.saved = IF race.turns[t].plan.step = "saved"
                             THEN Append(@, race.turns[t].pending.oid) ELSE @]
       ELSE /\ pending_todos' = pending_todos
            /\ race' = [race EXCEPT !.turns[t] = Done(@, _result_none, TRUE)]
    /\ UNCHANGED <<last_result, last_turn, last_call, resolved, store_vars>>

NextRace ==
    \/ \E t \in Threads, msg \in RaceMessages : RaceCheck(t, msg)
    \/ \E t \in Threads, reply \in RaceExtractions : RaceDetect(t, reply)
    \/ \E t \in Threads : RaceGet(t)
    \/ \E t \in Threads, reply \in RaceAnswers : RaceState(t, reply)
    \/ \E t \in Threads : RaceSetState(t)
    \/ \E t \in Threads : RaceReinsert(t)
    \/ \E t \in Threads : RaceDel(t)

SpecRace == Init /\ [][NextRace]_vars

\* the turns of t and u both found no flow, and both wrote one: each had
\* made its check before the other wrote
RacedToWrite(t, u) ==
    /\ t # u
    /\ race.turns[t].pc = "done" /\ race.turns[u].pc = "done"
    /\ race.turns[t].path = "new" /\ race.turns[u].path = "new"
    /\ race.turns[t].wrote > race.turns[u].checked_at
    /\ race.turns[u].wrote > race.turns[t].checked_at

\* the flow a turn on the new-candidate path reported in its result
FlowOf(turn) ==
    [state |-> IF turn.result.step = "suggest" THEN "ask_confirm" ELSE "ask_date",
     task |-> turn.result.task, date |-> turn.result.date, oid |-> turn.wrote]

\* C25: when two turns of one key both find no flow and both write one,
\* the dict of flows then holds one flow for the key, the one written
\* last, with every field as the later turn wrote it.
C25_LastWriteWins ==
    \A t, u \in Threads :
        (RacedToWrite(t, u) /\ race.turns[t].wrote > race.turns[u].wrote) =>
            /\ RaceKey \in DOMAIN pending_todos
            /\ LET flow == pending_todos[RaceKey]
               IN  /\ flow.oid = race.turns[t].wrote
                   /\ [state |-> flow.state, task |-> flow.task,
                       date |-> flow.date, oid |-> flow.oid] = FlowOf(race.turns[t])

\* two racing turns wrote flows that differ in task and in date, and the
\* first to write returned after the second had written
C25_Witness ==
    \E t, u \in Threads :
        /\ RacedToWrite(t, u)
        /\ race.turns[t].wrote > race.turns[u].wrote
        /\ race.turns[t].result.task # race.turns[u].result.task
        /\ race.turns[t].result.date # race.turns[u].result.date
        /\ race.turns[t].result.step = "suggest"
        /\ race.turns[u].result.step = "suggest"

\* a turn whose `del` found no flow returns step none
DelLoserGetsNone ==
    \A t \in Threads :
        (race.turns[t].pc = "done" /\ race.turns[t].raised) =>
            race.turns[t].result = _result_none

\* C28: when turns of one key interleave on a pending flow, the turn whose
\* deletion of the flow fails returns step none, and no flow is returned
\* as saved by more than one turn.
C28_NoDoubleCommit ==
    /\ DelLoserGetsNone
    /\ \A i, j \in 1..Len(race.saved) : race.saved[i] = race.saved[j] => i = j

====
